---------------------------- MODULE Spec2Model ----------------------------
(***************************************************************************)
(* Model of the multi-strategy reference search server                     *)
(* (src/public/index.html, the TypeScript program that starts at line      *)
(* 221): the three runners (symbol-aware, external-tool, in-process        *)
(* scanner), the request handler of POST /find-references that dispatches  *)
(* them and reconciles their records, and the event machine of one         *)
(* ripgrep invocation.                                                     *)
(*                                                                         *)
(* Text is modelled character by character: a line is a sequence of        *)
(* one-character strings, a path is a sequence of path segments, and the   *)
(* output of an external tool is a sequence of symbol sequences that       *)
(* parseGrepOutput splits again.                                           *)
(***************************************************************************)
EXTENDS Integers, Sequences, FiniteSets, TLC

(***************************************************************************)
(* Bounds and input sets                                                   *)
(***************************************************************************)

\* Most lines a file of the modelled tree holds.
MaxLines == 2

\* The search term of the request, "foo" (word characters only).
Word == <<"f", "o", "o">>

\* The lines files are filled with: "foo", "x foo", "x foox".
LineSet == { <<"f", "o", "o">>,
             <<"x", " ", "f", "o", "o">>,
             <<"x", " ", "f", "o", "o", "x">> }

\* The directory of the request, and the candidate files below it.
Root == <<"root">>

PathList == << <<"a.ts">>, <<"dist", "b.ts">>, <<"s", "d.js">> >>

Paths == { PathList[i] : i \in 1..Len(PathList) }

\* readdir order of the entry names of one directory.
NameOrder == <<"a.ts", "b.ts", "d.js", "dist", "s">>

Contents == UNION { [1..n -> LineSet] : n \in 1..MaxLines }

Trees == SUBSET Paths

(***************************************************************************)
(* Characters and strings                                                  *)
(***************************************************************************)

Digits == <<"0", "1", "2", "3", "4", "5", "6", "7", "8", "9">>

IsDigit(c) == \E i \in 1..10 : Digits[i] = c

\* \w of the regular expressions, and the word constituents of grep -w / rg -w.
IsWordChar(c) ==
    c \in {"f", "o", "x", "e", "i", "t", "F", "E", "_"} \/ IsDigit(c)

\* String.prototype.toLowerCase / the i flag, on the model's alphabet.
Lower(c) == IF c = "F" THEN "f" ELSE IF c = "E" THEN "e" ELSE c

LowerSeq(s) == [i \in 1..Len(s) |-> Lower(s[i])]

\* Number of leading blanks of s.
RECURSIVE LeadingBlanks(_)
LeadingBlanks(s) ==
    IF s = <<>> \/ Head(s) # " " THEN 0 ELSE 1 + LeadingBlanks(Tail(s))

RECURSIVE TrailingBlanks(_)
TrailingBlanks(s) ==
    IF s = <<>> \/ s[Len(s)] # " " THEN 0
    ELSE 1 + TrailingBlanks(SubSeq(s, 1, Len(s) - 1))

\* String.prototype.trim
Trim(s) ==
    IF LeadingBlanks(s) = Len(s) THEN <<>>
    ELSE SubSeq(s, LeadingBlanks(s) + 1, Len(s) - TrailingBlanks(s))

\* s.indexOf(t), 0-based, -1 when t does not occur.
IndexOf(s, t) ==
    LET hits == { i \in 0..(Len(s) - Len(t)) : SubSeq(s, i + 1, i + Len(t)) = t }
    IN  IF hits = {} THEN -1 ELSE CHOOSE i \in hits : \A j \in hits : i <= j

\* s.includes(t)
Includes(s, t) == IndexOf(s, t) # -1

\* Decimal digits of a natural number (template-literal formatting).
RECURSIVE ToDigits(_)
ToDigits(n) ==
    IF n < 10 THEN <<Digits[n + 1]>>
    ELSE ToDigits(n \div 10) \o <<Digits[(n % 10) + 1]>>

DigitValue(c) == (CHOOSE i \in 1..10 : Digits[i] = c) - 1

\* parseInt(s, 10) of a string of digits.
RECURSIVE ParseInt(_)
ParseInt(s) ==
    IF s = <<>> THEN 0
    ELSE 10 * ParseInt(SubSeq(s, 1, Len(s) - 1)) + DigitValue(s[Len(s)])


(***************************************************************************)
(* Paths: a path string is the sequence of its segment names with "/"      *)
(* between them                                                            *)
(***************************************************************************)

\* path.join of the segment names of p.
RECURSIVE JoinPath(_)
JoinPath(p) ==
    IF Len(p) = 0 THEN <<>>
    ELSE IF Len(p) = 1 THEN <<p[1]>>
    ELSE <<p[1], "/">> \o JoinPath(Tail(p))

\* The segments of a path string (each a sequence of symbols).
RECURSIVE SplitPath(_)
SplitPath(s) ==
    IF IndexOf(s, <<"/">>) = -1 THEN <<s>>
    ELSE <<SubSeq(s, 1, IndexOf(s, <<"/">>))>>
         \o SplitPath(SubSeq(s, IndexOf(s, <<"/">>) + 2, Len(s)))

RECURSIVE JoinSegments(_)
JoinSegments(segs) ==
    IF Len(segs) = 0 THEN <<>>
    ELSE IF Len(segs) = 1 THEN segs[1]
    ELSE segs[1] \o <<"/">> \o JoinSegments(Tail(segs))

RECURSIVE CommonPrefixLen(_, _)
CommonPrefixLen(a, b) ==
    IF a = <<>> \/ b = <<>> \/ Head(a) # Head(b) THEN 0
    ELSE 1 + CommonPrefixLen(Tail(a), Tail(b))

\* path.relative(from, to) of two absolute path strings.
PathRelative(from, to) ==
    LET f == SplitPath(from)
        t == SplitPath(to)
        k == CommonPrefixLen(f, t)
    IN  JoinSegments([i \in 1..(Len(f) - k) |-> <<"..">>]
                     \o SubSeq(t, k + 1, Len(t)))

\* path.extname of an entry name.
NameExt(name) ==
    CASE name \in {"a.ts", "b.ts"} -> ".ts"
      [] name = "d.js" -> ".js"
      [] OTHER -> ""

\* path.extname(file) of a path string: the extension of its last segment.
ExtName(file) ==
    LET segs == SplitPath(file)
        base == segs[Len(segs)]
    IN  IF Len(base) = 1 THEN NameExt(base[1]) ELSE ""

\* ext.slice(1)
DropDot(ext) ==
    CASE ext = ".ts" -> "ts"
      [] ext = ".js" -> "js"
      [] OTHER -> ""

\* s.includes('node_modules') of a path string.
IncludesNodeModules(file) == \E i \in 1..Len(file) : file[i] = "node_modules"

(***************************************************************************)
(* The directory tree of the request's root                                *)
(***************************************************************************)

IsPrefix(a, b) == Len(a) <= Len(b) /\ SubSeq(b, 1, Len(a)) = a

\* fs.promises.readdir(dir): the entry names of dir (relative to Root), in order.
ReadDir(tree, dir) ==
    SelectSeq(NameOrder,
              LAMBDA n : \E p \in tree : IsPrefix(dir \o <<n>>, p))

\* stat.isDirectory() / entry.isDirectory()
IsDirectory(tree, path) == \E p \in tree : IsPrefix(path, p) /\ p # path

\* The absolute path string of a path relative to Root.
AbsPath(path) == JoinPath(Root \o path)

(***************************************************************************)
(* Regular-expression matching of the search term in one line              *)
(***************************************************************************)

\* The term occurs at 1-based position i of line (flag i: case-insensitive).
MatchAt(word, line, i) ==
    /\ i >= 1
    /\ i + Len(word) - 1 <= Len(line)
    /\ LowerSeq(SubSeq(line, i, i + Len(word) - 1)) = LowerSeq(word)

\* \b holds between positions i-1 and i of line.
Boundary(line, i) ==
    LET before == i > 1 /\ IsWordChar(line[i - 1])
        after  == i <= Len(line) /\ IsWordChar(line[i])
    IN  before # after

\* new RegExp(`\\b${word}\\b`, 'gi') matches at i.
ExactAt(word, line, i) ==
    MatchAt(word, line, i) /\ Boundary(line, i) /\ Boundary(line, i + Len(word))

\* The loop while ((match = regex.exec(line)) !== null) of a g-flagged
\* regular expression: the 1-based start positions of the successive matches,
\* each search resuming at lastIndex (the end of the previous match).
RECURSIVE ExecAll(_, _, _, _)
ExecAll(word, line, from, exact) ==
    LET hits == { i \in from..Len(line) :
                    IF exact THEN ExactAt(word, line, i) ELSE MatchAt(word, line, i) }
    IN  IF hits = {} THEN <<>>
        ELSE LET i == CHOOSE h \in hits : \A j \in hits : h <= j
             IN  <<i>> \o ExecAll(word, line, i + Len(word), exact)

(***************************************************************************)
(* Match records.  Every record carries every field; a field the code does *)
(* not set holds "undefined".                                              *)
(***************************************************************************)

\* interface Location
Location(file, line, column, text, isExactMatch) ==
    [file |-> file, line |-> line, column |-> column, text |-> text,
     isExactMatch |-> isExactMatch, kind |-> "undefined",
     symbolName |-> "undefined", isDefinition |-> "undefined"]

\* interface TypeScriptReference: no isExactMatch field.
TypeScriptReference(file, line, column, text, symbolName, isDefinition) ==
    [file |-> file, line |-> line, column |-> column, text |-> text,
     isExactMatch |-> "undefined", kind |-> "Identifier",
     symbolName |-> symbolName, isDefinition |-> isDefinition]

\* JavaScript truthiness of a field that holds a boolean or undefined.
Truthy(v) == v = "true"

(***************************************************************************)
(* In-Process Scanner: findReferencesWithNode                              *)
(***************************************************************************)

IgnoreDirs ==
    {"node_modules", ".git", "dist", "build", "out", ".next", "coverage", ".cache"}

SupportedExtensions ==
    {".ts", ".js", ".tsx", ".jsx", ".json", ".html", ".css", ".md", ".yaml", ".yml"}

\* The key `${filePath}:${i + 1}:${match.index + 1}:${line.trim()}`.
ScanKey(filePath, lineNo, column, line) ==
    filePath \o <<":">> \o ToDigits(lineNo) \o <<":">> \o ToDigits(column)
             \o <<":">> \o Trim(line)

\* The first while loop of one line: every whole-word match is recorded in
\* exactMatches and pushed as an exact record.
RECURSIVE ScanExact(_, _, _, _, _)
ScanExact(filePath, lineNo, line, cols, st) ==
    IF cols = <<>> THEN st
    ELSE ScanExact(filePath, lineNo, line, Tail(cols),
           [locations |-> Append(st.locations,
                Location(filePath, lineNo, Head(cols), Trim(line), "true")),
            exactMatches |-> st.exactMatches
                \cup {ScanKey(filePath, lineNo, Head(cols), line)}])

\* A second while loop that does not look into exactMatches.
RECURSIVE ScanPartialNoCheck(_, _, _, _, _)
ScanPartialNoCheck(filePath, lineNo, line, cols, st) ==
    IF cols = <<>> THEN st
    ELSE ScanPartialNoCheck(filePath, lineNo, line, Tail(cols),
           [st EXCEPT !.locations = Append(@,
               Location(filePath, lineNo, Head(cols), Trim(line), "false"))])

\* The second while loop: a substring match is pushed as a partial record
\* unless its key is in exactMatches.
RECURSIVE ScanPartial(_, _, _, _, _)
ScanPartial(filePath, lineNo, line, cols, st) ==
    IF cols = <<>> THEN st
    ELSE ScanPartial(filePath, lineNo, line, Tail(cols),
           IF ScanKey(filePath, lineNo, Head(cols), line) \in st.exactMatches
           THEN st
           ELSE [st EXCEPT !.locations = Append(@,
                    Location(filePath, lineNo, Head(cols), Trim(line), "false"))])

\* The body of the loop over the lines of one file, from line lineNo on.
RECURSIVE ScanLines(_, _, _, _, _)
ScanLines(word, filePath, lines, lineNo, st) ==
    IF lineNo > Len(lines) THEN st
    ELSE ScanLines(word, filePath, lines, lineNo + 1,
           ScanPartial(filePath, lineNo, lines[lineNo],
                       ExecAll(word, lines[lineNo], 1, FALSE),
             ScanExact(filePath, lineNo, lines[lineNo],
                       ExecAll(word, lines[lineNo], 1, TRUE), st)))

\* searchInDirectory(dir): the loop over the entries of dir, recursing into
\* the directories whose name is not ignored.
RECURSIVE SearchInDirectory(_, _, _, _, _)
RECURSIVE SearchEntries(_, _, _, _, _, _)
SearchEntries(word, tree, content, dir, names, st) ==
    IF names = <<>> THEN st
    ELSE LET file == Head(names)
             path == dir \o <<file>>
             next ==
               IF IsDirectory(tree, path)
               THEN IF file \in IgnoreDirs THEN st
                    ELSE SearchInDirectory(word, tree, content, path, st)
               ELSE IF NameExt(file) \in SupportedExtensions
                    THEN ScanLines(word, AbsPath(path), content, 1, st)
                    ELSE st
         IN  SearchEntries(word, tree, content, dir, Tail(names), next)

SearchInDirectory(word, tree, content, dir, st) ==
    SearchEntries(word, tree, content, dir, ReadDir(tree, dir), st)

\* findReferencesWithNode(word, baseDir) when no readdir or stat fails.
FindReferencesWithNode(word, tree, content) ==
    SearchInDirectory(word, tree, content, <<>>,
                      [locations |-> <<>>, exactMatches |-> {}]).locations

(***************************************************************************)
(* Symbol-Aware Runner: findReferencesWithTypeScript                       *)
(***************************************************************************)

\* How the TypeScript services answer for the directory: no tsconfig.json is
\* found; a tsconfig.json is found and the checker resolves the identifiers
\* (the first occurrence in a file is the declaration, a write access, the
\* following ones read it); a tsconfig.json is found and the checker resolves
\* none of them.
TsAnalyses == {"noconfig", "resolved", "unresolved"}

\* The answers the model draws.
TsOutcomes == {"noconfig", "resolved", "throw"}

\* walk(dir) of findTypeScriptFiles: the .ts/.tsx files, skipping the
\* directories named node_modules or .git.
RECURSIVE WalkTs(_, _, _)
RECURSIVE WalkTsEntries(_, _, _, _)
WalkTsEntries(tree, dir, names, files) ==
    IF names = <<>> THEN files
    ELSE LET name == Head(names)
             fullPath == dir \o <<name>>
             next ==
               IF IsDirectory(tree, fullPath)
               THEN IF name # "node_modules" /\ name # ".git"
                    THEN WalkTs(tree, fullPath, files)
                    ELSE files
               ELSE IF NameExt(name) \in {".ts", ".tsx"}
                    THEN Append(files, fullPath)
                    ELSE files
         IN  WalkTsEntries(tree, dir, Tail(names), next)

WalkTs(tree, dir, files) ==
    WalkTsEntries(tree, dir, ReadDir(tree, dir), files)

FindTypeScriptFiles(tree) == WalkTs(tree, <<>>, <<>>)

\* The identifier tokens of a line whose text is the term (node.text ===
\* options.word, case-sensitive): their 1-based start columns, in order.
IdentifierColumns(word, line) ==
    LET cols == { i \in 1..Len(line) :
                    /\ i + Len(word) - 1 <= Len(line)
                    /\ SubSeq(line, i, i + Len(word) - 1) = word
                    /\ Boundary(line, i)
                    /\ Boundary(line, i + Len(word)) }
    IN  SelectSeq([i \in 1..Len(line) |-> i], LAMBDA i : i \in cols)

\* node.getFullText(): the token with the blanks before it.
RECURSIVE BlanksBefore(_, _)
BlanksBefore(line, i) ==
    IF i > 1 /\ line[i - 1] = " " THEN 1 + BlanksBefore(line, i - 1) ELSE 0

FullText(word, line, i) == SubSeq(line, i - BlanksBefore(line, i), i + Len(word) - 1)

\* The occurrences <<line, column>> of the identifier in one file, in the
\* order ts.forEachChild visits them.
RECURSIVE Occurrences(_, _, _)
Occurrences(word, lines, lineNo) ==
    IF lineNo > Len(lines) THEN <<>>
    ELSE [k \in 1..Len(IdentifierColumns(word, lines[lineNo])) |->
            <<lineNo, IdentifierColumns(word, lines[lineNo])[k]>>]
         \o Occurrences(word, lines, lineNo + 1)

\* searchWithoutConfig: one record per identifier token, without symbol data.
RECURSIVE SearchWithoutConfig(_, _, _)
SearchWithoutConfig(word, files, content) ==
    IF files = <<>> THEN <<>>
    ELSE LET occ == Occurrences(word, content, 1)
         IN  [k \in 1..Len(occ) |->
                TypeScriptReference(AbsPath(Head(files)), occ[k][1], occ[k][2],
                    FullText(word, content[occ[k][1]], occ[k][2]),
                    "undefined", "undefined")]
             \o SearchWithoutConfig(word, Tail(files), content)

\* The records the visit of one source file pushes when the checker resolves
\* the identifier: the declaration, then (isSymbolSearch) the read accesses
\* services.findReferences returns for it, then every later occurrence again
\* as the visit reaches it.
VisitResolved(word, file, content) ==
    LET occ == Occurrences(word, content, 1)
        visit(k) == TypeScriptReference(file, occ[k][1], occ[k][2],
                        FullText(word, content[occ[k][1]], occ[k][2]),
                        "foo", IF k = 1 THEN "true" ELSE "false")
        ref(k) == TypeScriptReference(file, occ[k][1], occ[k][2], word,
                        "foo", "false")
    IN  IF occ = <<>> THEN <<>>
        ELSE <<visit(1)>>
             \o [k \in 1..(Len(occ) - 1) |-> ref(k + 1)]
             \o [k \in 1..(Len(occ) - 1) |-> visit(k + 1)]

\* The loop over program.getSourceFiles().
RECURSIVE SearchWithConfig(_, _, _, _)
SearchWithConfig(word, files, content, analysis) ==
    IF files = <<>> THEN <<>>
    ELSE (IF IncludesNodeModules(AbsPath(Head(files))) \/ analysis = "unresolved"
          THEN <<>>
          ELSE VisitResolved(word, AbsPath(Head(files)), content))
         \o SearchWithConfig(word, Tail(files), content, analysis)

\* findReferencesWithTypeScript({word, directory, isSymbolSearch: true})
FindReferencesWithTypeScript(word, tree, content, analysis) ==
    IF analysis = "noconfig"
    THEN SearchWithoutConfig(word, FindTypeScriptFiles(tree), content)
    ELSE SearchWithConfig(word, FindTypeScriptFiles(tree), content, analysis)

(***************************************************************************)
(* External tools: what ripgrep and grep print for the tree                *)
(***************************************************************************)

\* The globs !**/<dir>/** of rgArgs and the --exclude-dir options of grep.
ExcludedDirs ==
    {"node_modules", ".git", "dist", "build", "out", ".next", "coverage", ".cache"}

\* --type-add custom:*.{...} of rgArgs and the --include options of grep.
IncludedExtensions ==
    {".ts", ".js", ".tsx", ".jsx", ".json", ".html", ".css", ".md", ".yaml", ".yml"}

\* The tool searches the file at path: no directory on the way is excluded
\* and the extension is included.
ToolSearches(path) ==
    /\ \A i \in 1..(Len(path) - 1) : path[i] \notin ExcludedDirs
    /\ NameExt(path[Len(path)]) \in IncludedExtensions

\* A line is selected by the pattern: -i, and -w for whole words.
LineSelected(word, line, wholeWord) ==
    ExecAll(word, line, 1, wholeWord) # <<>>

\* One printed line, <file>:<lineNumber>:<text> (-n, --with-filename).
OutputLine(path, lineNo, line) ==
    AbsPath(path) \o <<":">> \o ToDigits(lineNo) \o <<":">> \o line

\* The lines a recursive line-oriented search of Root prints, files in
\* directory order.
RECURSIVE ToolStdout(_, _, _, _, _)
ToolStdout(word, tree, content, wholeWord, k) ==
    IF k > Len(PathList) THEN <<>>
    ELSE (IF PathList[k] \in tree /\ ToolSearches(PathList[k])
          THEN LET sel == SelectSeq([i \in 1..Len(content) |-> i],
                            LAMBDA i : LineSelected(word, content[i], wholeWord))
               IN  [n \in 1..Len(sel) |->
                      OutputLine(PathList[k], sel[n], content[sel[n]])]
          ELSE <<>>)
         \o ToolStdout(word, tree, content, wholeWord, k + 1)

\* stdout of rg with rgArgs (-w when exactMatch).
RipgrepStdout(word, tree, content, exactMatch) ==
    ToolStdout(word, tree, content, exactMatch, 1)

\* stdout of exactCommand (-w) and of partialCommand.
GrepStdout(word, tree, content, exactMatch) ==
    ToolStdout(word, tree, content, exactMatch, 1)

(***************************************************************************)
(* parseGrepOutput                                                         *)
(***************************************************************************)

\* The places <<j, k>> where /^(.+):(\d+):(.*)$/ can split line: a colon at
\* j, digits from j+1 to k-1, a colon at k, and a non-empty group before j.
GrepSplits(line) ==
    { jk \in (2..Len(line)) \X (2..Len(line)) :
        /\ jk[1] + 1 < jk[2]
        /\ line[jk[1]] = ":"
        /\ line[jk[2]] = ":"
        /\ \A i \in (jk[1] + 1)..(jk[2] - 1) : IsDigit(line[i]) }

\* The split the regular expression takes: (.+) is greedy, so the last one.
GrepSplit(line) ==
    CHOOSE jk \in GrepSplits(line) : \A o \in GrepSplits(line) : o[1] <= jk[1]

RECURSIVE ParseGrepOutput(_, _)
ParseGrepOutput(output, isExactMatch) ==
    IF output = <<>> THEN <<>>
    ELSE LET line == Head(output)
             j == GrepSplit(line)[1]
             k == GrepSplit(line)[2]
             file == SubSeq(line, 1, j - 1)
             text == SubSeq(line, k + 1, Len(line))
             here ==
               IF Trim(line) = <<>> \/ GrepSplits(line) = {} THEN <<>>
               ELSE IF IncludesNodeModules(file) THEN <<>>
               ELSE <<Location(file,
                               ParseInt(SubSeq(line, j + 1, k - 1)),
                               IndexOf(text, Trim(text)) + 1,
                               Trim(text),
                               IF isExactMatch THEN "true" ELSE "false")>>
         IN  here \o ParseGrepOutput(Tail(output), isExactMatch)

(***************************************************************************)
(* External-Tool Runner: checkSearchTools, searchWithRipgrep,              *)
(* fallbackToGrep, findReferencesWithGrep                                  *)
(***************************************************************************)

\* An awaited call either returns a value or throws.
Returned(v) == [threw |-> FALSE, value |-> v, delegated |-> FALSE]

Threw == [threw |-> TRUE, value |-> <<>>, delegated |-> FALSE]

\* The locations checkSearchTools probes, in order.
RgProbePaths == <<"/opt/homebrew/bin/rg", "/usr/local/bin/rg", "rg">>

\* The location searchWithRipgrep spawns.
RgSpawnPath == "/opt/homebrew/bin/rg"

\* The installations the model draws: neither tool, grep alone, ripgrep at
\* the location searchWithRipgrep spawns, ripgrep on the PATH only.
Environments ==
    { [rgInstalled |-> {}, grepInstalled |-> FALSE],
      [rgInstalled |-> {}, grepInstalled |-> TRUE],
      [rgInstalled |-> {"/opt/homebrew/bin/rg"}, grepInstalled |-> TRUE],
      [rgInstalled |-> {"rg"}, grepInstalled |-> TRUE] }

\* checkSearchTools(): it catches every probe's failure and never throws.
CheckSearchTools(rgInstalled, grepInstalled) ==
    [ripgrep |-> \E i \in 1..Len(RgProbePaths) : RgProbePaths[i] \in rgInstalled,
     grep |-> grepInstalled]

\* What happens first to the promise of one searchWithRipgrep call: the
\* child closes with code 0 or 1, closes with another code, emits 'error',
\* the 30 s timer fires, or spawn throws synchronously.
RgEvents == {"close_ok", "close_fail", "error", "timeout", "throw"}

\* The events the environment allows: a binary that is not at RgSpawnPath
\* cannot run, so the child emits 'error' (ENOENT), unless spawn throws.
RgEventsFor(rgInstalled) ==
    IF RgSpawnPath \in rgInstalled
    THEN {"close_ok", "close_fail", "timeout", "throw"}
    ELSE {"error", "throw"}

\* The close handler's results: parseGrepOutput(output, exactMatch) without
\* the files that include node_modules.
RgResults(stdout, exactMatch) ==
    SelectSeq(ParseGrepOutput(stdout, exactMatch),
              LAMBDA r : ~IncludesNodeModules(r.file))

\* searchWithRipgrep(word, directory, exactMatch), settled by event.
SearchWithRipgrep(event, word, tree, content, exactMatch) ==
    CASE event = "close_ok" ->
           Returned(RgResults(RipgrepStdout(word, tree, content, exactMatch),
                              exactMatch))
      [] event \in {"close_fail", "error", "timeout"} -> Returned(<<>>)
      [] event = "throw" -> Threw

\* The key `${match.file}:${match.line}:${match.text}`.
MatchKey(match) ==
    match.file \o <<":">> \o ToDigits(match.line) \o <<":">> \o match.text

MatchKeys(matches) == { MatchKey(matches[i]) : i \in 1..Len(matches) }

\* The ripgrep branch: [...exactMatches, ...partialMatches].
RipgrepBranch(word, allMatches, exactMatches) ==
    LET partialMatches ==
          SelectSeq(allMatches,
            LAMBDA m : /\ MatchKey(m) \notin MatchKeys(exactMatches)
                       /\ Includes(LowerSeq(m.text), LowerSeq(word)))
    IN  exactMatches
        \o [i \in 1..Len(partialMatches) |->
              [partialMatches[i] EXCEPT !.isExactMatch = "false"]]

\* What one execAsync(command, {timeout: 30000}) of fallbackToGrep does: it
\* succeeds, it fails (not found, exit code, timeout; caught to stdout ''),
\* or exec throws synchronously.
GrepEvents == {"ok", "fail", "throw"}

GrepEventsFor(grepInstalled) ==
    IF grepInstalled THEN {"ok", "fail", "throw"} ELSE {"fail", "throw"}

\* The scanner as a callee: scanFails when a readdir or stat rejects.
RunScanner(word, tree, content, scanFails) ==
    IF scanFails THEN Threw
    ELSE Returned(FindReferencesWithNode(word, tree, content))

Delegated(r) == [r EXCEPT !.delegated = TRUE]

\* fallbackToGrep(word, directory)
FallbackToGrep(word, tree, content, exactEvent, partialEvent, scanFails) ==
    IF exactEvent = "throw" \/ partialEvent = "throw"
    THEN Delegated(RunScanner(word, tree, content, scanFails))
    ELSE LET exactOutput == IF exactEvent = "ok"
                            THEN GrepStdout(word, tree, content, TRUE) ELSE <<>>
             partialOutput == IF partialEvent = "ok"
                              THEN GrepStdout(word, tree, content, FALSE) ELSE <<>>
             exactMatches == ParseGrepOutput(exactOutput, TRUE)
             partialMatches == ParseGrepOutput(partialOutput, FALSE)
         IN  Returned(exactMatches
                      \o SelectSeq(partialMatches,
                           LAMBDA m : MatchKey(m) \notin MatchKeys(exactMatches)))

\* findReferencesWithGrep(word, directory)
FindReferencesWithGrep(word, tree, content, tools, allEvent, exactEvent, grepExact, grepPartial, scanFails) ==
    IF tools.ripgrep
    THEN LET all == SearchWithRipgrep(allEvent, word, tree, content, FALSE)
             exact == SearchWithRipgrep(exactEvent, word, tree, content, TRUE)
         IN  IF all.threw THEN Delegated(RunScanner(word, tree, content, scanFails))
             ELSE IF exact.threw
                  THEN Delegated(RunScanner(word, tree, content, scanFails))
                  ELSE Returned(RipgrepBranch(word, all.value, exact.value))
    ELSE FallbackToGrep(word, tree, content, grepExact, grepPartial, scanFails)

(***************************************************************************)
(* Result Reconciler: enhanceLocation, the uniqueRefs map,                 *)
(* groupReferencesByFileType and the summary                               *)
(***************************************************************************)

\* An enhancement that also rewrites file to the relative path.
EnhanceLocationRebasing(location, baseDir) ==
    [file |-> PathRelative(baseDir, location.file), line |-> location.line,
     column |-> location.column, text |-> location.text,
     isExactMatch |-> location.isExactMatch, kind |-> location.kind,
     symbolName |-> location.symbolName,
     isDefinition |-> location.isDefinition,
     relativePath |-> PathRelative(baseDir, location.file),
     fileType |-> DropDot(ExtName(location.file)),
     context |-> location.text]

\* enhanceLocation(location, baseDir)
EnhanceLocation(location, baseDir) ==
    [file |-> location.file, line |-> location.line,
     column |-> location.column, text |-> location.text,
     isExactMatch |-> location.isExactMatch, kind |-> location.kind,
     symbolName |-> location.symbolName,
     isDefinition |-> location.isDefinition,
     relativePath |-> PathRelative(baseDir, location.file),
     fileType |-> DropDot(ExtName(location.file)),
     context |-> location.text]

\* A key without the colon between line and column.
RefKeyLineColumnJoined(ref) ==
    ref.relativePath \o <<":">> \o ToDigits(ref.line) \o ToDigits(ref.column)

\* The map key `${ref.relativePath}:${ref.line}:${ref.column}`.
RefKey(ref) ==
    ref.relativePath \o <<":">> \o ToDigits(ref.line) \o <<":">>
                     \o ToDigits(ref.column)

\* A reconciler in which setting a key again moves it to the end: the keys
\* in the order of their last occurrence.
UniqueRefsLastOrder(refs) ==
    LET keys == [i \in 1..Len(refs) |-> RefKey(refs[i])]
        lasts == SelectSeq([i \in 1..Len(refs) |-> i],
                   LAMBDA i : \A j \in (i + 1)..Len(refs) : keys[j] # keys[i])
    IN  [n \in 1..Len(lasts) |-> refs[lasts[n]]]

\* A reconciler that keeps every record: no Map, the array as it came.
UniqueRefsKeepAll(refs) == refs

\* A reconciler whose Map keeps the first record of a key instead of the
\* last one set.
UniqueRefsFirstWins(refs) ==
    LET keys == [i \in 1..Len(refs) |-> RefKey(refs[i])]
        firsts == SelectSeq([i \in 1..Len(refs) |-> i],
                    LAMBDA i : \A j \in 1..(i - 1) : keys[j] # keys[i])
    IN  [n \in 1..Len(firsts) |-> refs[firsts[n]]]

\* Array.from(new Map(entries).values()): a key keeps the place of its first
\* entry and the value of its last one.
UniqueRefs(refs) ==
    LET keys == [i \in 1..Len(refs) |-> RefKey(refs[i])]
        firsts == SelectSeq([i \in 1..Len(refs) |-> i],
                    LAMBDA i : \A j \in 1..(i - 1) : keys[j] # keys[i])
        last(i) == CHOOSE j \in i..Len(refs) :
                      /\ keys[j] = keys[i]
                      /\ \A k \in (j + 1)..Len(refs) : keys[k] # keys[i]
    IN  [n \in 1..Len(firsts) |-> refs[last(firsts[n])]]

\* A grouping that assigns instead of pushing: acc[fileType] = [ref], so a
\* group holds only the last record of its type.
GroupByFileTypeAssigning(refs) ==
    LET firsts == SelectSeq([i \in 1..Len(refs) |-> i],
                    LAMBDA i : \A j \in 1..(i - 1) : refs[j].fileType # refs[i].fileType)
        last(t) == CHOOSE j \in 1..Len(refs) :
                      /\ refs[j].fileType = t
                      /\ \A k \in (j + 1)..Len(refs) : refs[k].fileType # t
    IN  [n \in 1..Len(firsts) |->
           <<refs[firsts[n]].fileType, <<refs[last(refs[firsts[n]].fileType)]>> >>]

\* groupReferencesByFileType(references): the groups in the order their file
\* type first occurs, each a pair <<fileType, records>>.
GroupReferencesByFileType(refs) ==
    LET firsts == SelectSeq([i \in 1..Len(refs) |-> i],
                    LAMBDA i : \A j \in 1..(i - 1) : refs[j].fileType # refs[i].fileType)
    IN  [n \in 1..Len(firsts) |->
           <<refs[firsts[n]].fileType,
             SelectSeq(refs, LAMBDA r : r.fileType = refs[firsts[n]].fileType)>>]

\* A summary whose partialMatches counts only the records that carry
\* isExactMatch === false.
SummaryExplicitPartial(uniqueRefs) ==
    [totalFiles |-> Cardinality({ uniqueRefs[i].file : i \in 1..Len(uniqueRefs) }),
     totalMatches |-> Len(uniqueRefs),
     exactMatches |->
        Len(SelectSeq(uniqueRefs, LAMBDA r : r.isExactMatch = "true")),
     partialMatches |->
        Len(SelectSeq(uniqueRefs, LAMBDA r : r.isExactMatch = "false")),
     fileTypes |-> [n \in 1..Len(GroupReferencesByFileType(uniqueRefs)) |->
                      <<GroupReferencesByFileType(uniqueRefs)[n][1],
                        Len(GroupReferencesByFileType(uniqueRefs)[n][2])>>],
     definitions |->
        Len(SelectSeq(uniqueRefs, LAMBDA r : Truthy(r.isDefinition))),
     references |->
        Len(SelectSeq(uniqueRefs, LAMBDA r : ~Truthy(r.isDefinition)))]

\* The summary object of the result.
Summary(uniqueRefs) ==
    [totalFiles |-> Cardinality({ uniqueRefs[i].file : i \in 1..Len(uniqueRefs) }),
     totalMatches |-> Len(uniqueRefs),
     exactMatches |->
        Len(SelectSeq(uniqueRefs, LAMBDA r : Truthy(r.isExactMatch))),
     partialMatches |->
        Len(SelectSeq(uniqueRefs, LAMBDA r : ~Truthy(r.isExactMatch))),
     fileTypes |-> [n \in 1..Len(GroupReferencesByFileType(uniqueRefs)) |->
                      <<GroupReferencesByFileType(uniqueRefs)[n][1],
                        Len(GroupReferencesByFileType(uniqueRefs)[n][2])>>],
     definitions |->
        Len(SelectSeq(uniqueRefs, LAMBDA r : Truthy(r.isDefinition))),
     references |->
        Len(SelectSeq(uniqueRefs, LAMBDA r : ~Truthy(r.isDefinition)))]

\* The EnhancedSearchResult built from the accumulated references.
SearchResult(references, baseDir) ==
    LET enhancedReferences ==
          [i \in 1..Len(references) |-> EnhanceLocation(references[i], baseDir)]
        uniqueRefs == UniqueRefs(enhancedReferences)
    IN  [references |-> uniqueRefs,
         groupedByFileType |-> GroupReferencesByFileType(uniqueRefs),
         summary |-> Summary(uniqueRefs)]

(***************************************************************************)
(* The request handler of POST /find-references (req.on('end'))            *)
(***************************************************************************)

VARIABLES
    tree,        \* the files below Root
    content,     \* the lines every file of the tree holds
    request,     \* the request being handled
    pc,          \* where the handler is: the call it awaits, or done
    strategy,    \* request.searchStrategy || 'all'
    references,  \* the accumulated references
    results,     \* what each runner returned to the handler
    invoked,     \* the runners the handler has called, in order
    failed,      \* the runners whose call threw
    delegated,   \* findReferencesWithGrep called findReferencesWithNode
    env,         \* the tools findReferencesWithGrep found installed
    analysis,    \* how the TypeScript services answered
    response,    \* the response written
    erred,       \* an earlier request of this server was answered 500
    rg,          \* one searchWithRipgrep call: child, timer and promise
    busy,        \* the ports other processes hold
    runs,        \* the startServer calls made so far, in order
    server,      \* the http server object: handle and registered listeners
    terminals,   \* the startTerminalInterface calls made so far
    conns,       \* the connections of the clients
    signal,      \* whether SIGINT/SIGTERM came, and the requests then in flight
    exit,        \* why the process exited, "none" while it runs
    conc,        \* two handlers in flight at once, and their accumulators
    tool,        \* one findReferencesWithGrep call and what its two searches gave
    scan,        \* the two match loops of the scanner on the lines of a file
    keys,        \* two enhanced records and their map keys
    terminal     \* the promptSearch loop of the terminal interface

vars == <<tree, content, request, pc, strategy, references, results, invoked,
          failed, delegated, env, analysis, response, erred, rg,
          busy, runs, server, terminals, conns, signal, exit, conc,
          tool, scan, keys, terminal>>

bootVars == <<busy, runs, server, terminals, conns, signal, exit>>

searchVars == <<tree, content, request, pc, strategy, references, results,
                invoked, failed, delegated, env, analysis, response, erred, rg,
                conc, tool, scan, keys, terminal>>

unitVars == <<tool, scan, keys, terminal>>

handlerVars == <<request, pc, strategy, references, results, invoked, failed,
                 delegated, env, analysis, response, erred>>

Strategies == {"undefined", "empty", "all", "typescript", "grep", "node", "other"}

\* The bodies the model sends: "invalid" is a body JSON.parse rejects.  A
\* well-formed request with both fields tries every strategy; the others are
\* sent with two of them.
Requests ==
    { r \in [body : {"json"}, word : {"undefined", "empty", "foo"},
             directory : {"undefined", "empty", "nonexistent", "root"},
             searchStrategy : Strategies] :
        \/ r.word = "foo" /\ r.directory = "root"
        \/ r.searchStrategy \in {"undefined", "node"} }
    \cup { [body |-> "invalid", word |-> "undefined", directory |-> "undefined",
            searchStrategy |-> "undefined"] }

NoRequest == [body |-> "none", word |-> "undefined", directory |-> "undefined",
              searchStrategy |-> "undefined"]

NoDetails == [word |-> "undefined", directory |-> "undefined", message |-> "undefined"]

NoResult == [references |-> <<>>, groupedByFileType |-> <<>>,
             summary |-> [totalFiles |-> 0, totalMatches |-> 0, exactMatches |-> 0,
                          partialMatches |-> 0, fileTypes |-> <<>>,
                          definitions |-> 0, references |-> 0]]

NoResponse == [status |-> 0, error |-> "undefined", details |-> NoDetails,
               result |-> NoResult]

NoResults == [typescript |-> <<>>, grep |-> <<>>, node |-> <<>>]

NoEnv == [probed |-> FALSE, rgInstalled |-> {}, grepInstalled |-> FALSE]

\* !request.word, !request.directory
Missing(field) == field \in {"undefined", "empty"}

\* A directory check that accepts every path.
ExistsSyncAlways(directory) == TRUE

\* fs.existsSync(request.directory)
ExistsSync(directory) == directory = "root"

\* The 400 response of the field check.
MissingFieldsResponse(req) ==
    [status |-> 400, error |-> "Missing required fields",
     details |-> [word |-> IF Missing(req.word) THEN "Missing search term"
                           ELSE "undefined",
                  directory |-> IF Missing(req.directory) THEN "Missing directory"
                                ELSE "undefined",
                  message |-> "undefined"],
     result |-> NoResult]

\* The 400 response of the directory check.
InvalidDirectoryResponse(req) ==
    [status |-> 400, error |-> "Invalid directory",
     details |-> [word |-> "undefined", directory |-> "undefined",
                  message |-> "Directory does not exist: " \o req.directory],
     result |-> NoResult]

\* A 500 response that carries no details.
InternalErrorWithoutDetails ==
    [status |-> 500, error |-> "Internal server error", details |-> NoDetails,
     result |-> NoResult]

\* The 500 response of the outer catch.
InternalErrorResponse ==
    [status |-> 500, error |-> "Internal server error",
     details |-> [word |-> "undefined", directory |-> "undefined",
                  message |-> "Unexpected token"],
     result |-> NoResult]

\* The 200 response.
OkResponse(refs) ==
    [status |-> 200, error |-> "undefined", details |-> NoDetails,
     result |-> SearchResult(refs, JoinPath(Root))]

\* if (strategy === 'all' || strategy === 'typescript')
TypeScriptApplies(strat) == strat = "all" \/ strat = "typescript"

\* An external-tool condition that holds for every strategy that names no
\* other runner.
GrepAppliesUnlessNamed(strat) == strat \notin {"typescript", "node"}

\* if (strategy === 'all' || strategy === 'grep')
GrepApplies(strat) == strat = "all" \/ strat = "grep"

\* A scanner condition without the test for an empty accumulation.
NodeAppliesAlways(strat, refs) == strat = "all" \/ strat = "node"

\* if ((strategy === 'all' && references.length === 0) || strategy === 'node')
NodeApplies(strat, refs) == (strat = "all" /\ Len(refs) = 0) \/ strat = "node"

\* The call the handler reaches next after the step `after`, or "done" when
\* none is left and it writes the response.
NextCall(after, strat, refs) ==
    IF after = "start" /\ TypeScriptApplies(strat) THEN "typescript"
    ELSE IF after \in {"start", "typescript"} /\ GrepApplies(strat) THEN "grep"
    ELSE IF after \in {"start", "typescript", "grep"} /\ NodeApplies(strat, refs)
         THEN "node"
    ELSE "done"

\* The handler runs on from the step `after` to its next await or to the end.
Proceed(after, strat, refs) ==
    LET next == NextCall(after, strat, refs)
    IN  /\ pc' = next
        /\ invoked' = IF next = "done" THEN invoked ELSE Append(invoked, next)
        /\ response' = IF next = "done" THEN OkResponse(refs) ELSE response

\* The handler's variables before a request arrives.
HandlerIdle ==
    /\ request = NoRequest
    /\ pc = "listening"
    /\ strategy = "undefined"
    /\ references = <<>>
    /\ results = NoResults
    /\ invoked = <<>>
    /\ failed = {}
    /\ delegated = FALSE
    /\ env = NoEnv
    /\ analysis = "none"
    /\ response = NoResponse

\* No searchWithRipgrep call is being followed.
RgIdle == [started |-> "none", child |-> "none", errorEmitted |-> FALSE,
           killed |-> FALSE, exactMatch |-> FALSE, todo |-> <<>>,
           output |-> <<>>, timer |-> "none", promise |-> "none",
           value |-> <<>>]

\* The module-level server object before listen and on('error') were called;
\* handle is the set of the port it is bound to, empty when it has no handle.
ServerIdle ==
    [handle |-> {}, listeningCallbacks |-> 0, errorHandlers |-> 0,
     closing |-> FALSE, otherError |-> FALSE]

\* The bootstrap's variables before startServer() is called.
BootIdle ==
    /\ busy = {}
    /\ runs = <<>>
    /\ server = ServerIdle
    /\ terminals = 0
    /\ conns = <<>>
    /\ signal = [received |-> FALSE, inflight |-> {}]
    /\ exit = "none"

\* No handler of the two-request scenario has started.
ConcIdle == [handlers |-> <<>>, references |-> <<>>]

\* No findReferencesWithGrep call is being followed.
ToolIdle == [pc |-> "none", word |-> <<>>, ripgrep |-> FALSE,
             allEvent |-> "none", exactEvent |-> "none",
             all |-> <<>>, exact |-> <<>>, returned |-> Returned(<<>>)]

\* No line is being matched.
ScanIdle == [pc |-> "none", word |-> <<>>, line |-> 0, lastIndex |-> 0,
             match |-> 0, exactColumns |-> {}, pushed |-> 0]

\* No keys are being compared.
KeysIdle == <<>>

\* startTerminalInterface has not been called.
TerminalIdle == [pc |-> "none", word |-> <<>>, printed |-> "none",
                 matches |-> {}, prompts |-> 0]

UnitIdle ==
    /\ tool = ToolIdle
    /\ scan = ScanIdle
    /\ keys = KeysIdle
    /\ terminal = TerminalIdle

\* The server is listening and no request has been read yet.
Init ==
    /\ tree \in Trees
    /\ content \in Contents
    /\ HandlerIdle
    /\ erred = FALSE
    /\ rg = RgIdle
    /\ BootIdle
    /\ conc = ConcIdle
    /\ UnitIdle

\* req.on('end'): JSON.parse, the two checks, and the dispatch up to the
\* first awaited runner.
Receive ==
    /\ pc = "listening"
    /\ \E req \in Requests :
         /\ request' = req
         /\ IF req.body = "invalid"
            THEN /\ pc' = "done"
                 /\ response' = InternalErrorResponse
                 /\ UNCHANGED <<strategy, invoked>>
            ELSE IF Missing(req.word) \/ Missing(req.directory)
            THEN /\ pc' = "done"
                 /\ response' = MissingFieldsResponse(req)
                 /\ UNCHANGED <<strategy, invoked>>
            ELSE IF ~ExistsSync(req.directory)
            THEN /\ pc' = "done"
                 /\ response' = InvalidDirectoryResponse(req)
                 /\ UNCHANGED <<strategy, invoked>>
            ELSE /\ strategy' = IF Missing(req.searchStrategy) THEN "all"
                                ELSE req.searchStrategy
                 /\ Proceed("start", strategy', <<>>)
    /\ UNCHANGED <<tree, content, references, results, failed, delegated, env,
                   analysis, erred, rg, bootVars, conc, unitVars>>

\* A handler that puts a runner's records in front of the accumulated ones.
RunnerSettledInFront(name, r) ==
    /\ failed' = IF r.threw THEN failed \cup {name} ELSE failed
    /\ results' = [results EXCEPT ![name] = r.value]
    /\ references' = IF r.threw THEN references ELSE r.value \o references
    /\ Proceed(name, strategy, references')

\* A handler without the try/catch around the runner call: the throw
\* reaches the outer catch, which answers 500.
RunnerSettledUncaught(name, r) ==
    IF r.threw
    THEN /\ failed' = failed \cup {name}
         /\ pc' = "done"
         /\ response' = InternalErrorResponse
         /\ UNCHANGED <<results, references, invoked>>
    ELSE /\ failed' = failed
         /\ results' = [results EXCEPT ![name] = r.value]
         /\ references' = references \o r.value
         /\ Proceed(name, strategy, references')

\* The try/catch around one awaited runner: a returned list is appended to
\* references, a thrown error is logged, and the handler runs on.
RunnerSettled(name, r) ==
    /\ failed' = IF r.threw THEN failed \cup {name} ELSE failed
    /\ results' = [results EXCEPT ![name] = r.value]
    /\ references' = IF r.threw THEN references ELSE references \o r.value
    /\ Proceed(name, strategy, references')

\* await findReferencesWithTypeScript(...) settles.
TypeScriptSettles ==
    /\ pc = "typescript"
    /\ \E outcome \in TsOutcomes :
         /\ analysis' = outcome
         /\ RunnerSettled("typescript",
               IF outcome = "throw" THEN Threw
               ELSE Returned(FindReferencesWithTypeScript(Word, tree, content, outcome)))
    /\ UNCHANGED <<tree, content, request, strategy, delegated, env, erred, rg,
                   bootVars, conc, unitVars>>

\* await findReferencesWithGrep(...) settles.  The environment decides which
\* tools are found and how each invocation ends; a call that is not reached
\* has the event "unused".
GrepSettles ==
    /\ pc = "grep"
    /\ \E e \in Environments :
       LET tools == CheckSearchTools(e.rgInstalled, e.grepInstalled)
       IN
       \E allEvent \in (IF tools.ripgrep THEN RgEventsFor(e.rgInstalled)
                        ELSE {"unused"}) :
       \E exactEvent \in (IF tools.ripgrep /\ allEvent # "throw"
                          THEN RgEventsFor(e.rgInstalled) ELSE {"unused"}) :
       \E grepExact \in (IF tools.ripgrep THEN {"unused"}
                         ELSE GrepEventsFor(e.grepInstalled)) :
       \E grepPartial \in (IF tools.ripgrep \/ grepExact = "throw" THEN {"unused"}
                           ELSE GrepEventsFor(e.grepInstalled)) :
       \E scanFails \in (IF "throw" \in {allEvent, exactEvent, grepExact, grepPartial}
                         THEN BOOLEAN ELSE {FALSE}) :
         LET r == FindReferencesWithGrep(Word, tree, content, tools, allEvent,
                    exactEvent, grepExact, grepPartial, scanFails)
         IN  /\ env' = [probed |-> TRUE, rgInstalled |-> e.rgInstalled,
                        grepInstalled |-> e.grepInstalled]
             /\ delegated' = r.delegated
             /\ RunnerSettled("grep", r)
    /\ UNCHANGED <<tree, content, request, strategy, analysis, erred, rg,
                   bootVars, conc, unitVars>>

\* await findReferencesWithNode(...) settles.
NodeSettles ==
    /\ pc = "node"
    /\ \E scanFails \in BOOLEAN :
         RunnerSettled("node", RunScanner(Word, tree, content, scanFails))
    /\ UNCHANGED <<tree, content, request, strategy, delegated, env, analysis,
                   erred, rg, bootVars, conc, unitVars>>

\* The server stays up after the 500 of the outer catch: the handler of the
\* next request starts with fresh locals.  The model follows the server
\* past one such response.
NextRequest ==
    /\ pc = "done"
    /\ response.status = 500
    /\ ~erred
    /\ erred' = TRUE
    /\ request' = NoRequest
    /\ pc' = "listening"
    /\ strategy' = "undefined"
    /\ references' = <<>>
    /\ results' = NoResults
    /\ invoked' = <<>>
    /\ failed' = {}
    /\ delegated' = FALSE
    /\ env' = NoEnv
    /\ analysis' = "none"
    /\ response' = NoResponse
    /\ UNCHANGED <<tree, content, rg, bootVars, conc, unitVars>>

Next ==
    Receive \/ TypeScriptSettles \/ GrepSettles \/ NodeSettles \/ NextRequest

Spec == Init /\ [][Next]_vars

(***************************************************************************)
(* One searchWithRipgrep call: the child process, its handlers, the 30 s   *)
(* timer and the promise (the executor of new Promise)                     *)
(***************************************************************************)

\* resolve(v): only the first settlement of a promise counts.
Resolve(r, v) ==
    IF r.promise = "pending" THEN [r EXCEPT !.promise = "resolved", !.value = v]
    ELSE r

\* rgProcess.on('close', code => ...): an exit code other than 0 and 1
\* resolves to [], else to the parsed output without node_modules files.
OnCloseResolve(r, code) ==
    IF code # "0" /\ code # "1" THEN Resolve(r, <<>>)
    ELSE Resolve(r, RgResults(r.output, r.exactMatch))

\* rgProcess.on('close', () => clearTimeout(timeout))
OnCloseClearTimeout(r) ==
    IF r.timer = "armed" THEN [r EXCEPT !.timer = "cleared"] ELSE r

\* rgProcess.on('error', ...)
OnError(r) == Resolve(r, <<>>)

\* A timer callback that kills the child and leaves the promise alone.
OnTimeoutKillOnly(r) ==
    [r EXCEPT !.killed = (r.child = "running"), !.timer = "fired"]

\* The setTimeout callback: rgProcess.kill(); resolve([]).
OnTimeout(r) ==
    Resolve([r EXCEPT !.killed = (r.child = "running"), !.timer = "fired"], <<>>)

\* The call has been made: spawn threw (the promise is rejected and no
\* handler or timer exists), or the child was created, able to run or not
\* (ENOENT), with the handlers registered and the timer armed.
RgInit ==
    /\ tree \in Trees
    /\ content \in Contents
    /\ HandlerIdle
    /\ erred = FALSE
    /\ BootIdle
    /\ conc = ConcIdle
    /\ UnitIdle
    /\ \E exactMatch \in BOOLEAN, started \in {"ok", "enoent", "threw"} :
         rg = IF started = "threw"
              THEN [RgIdle EXCEPT !.started = "threw", !.promise = "rejected",
                                  !.exactMatch = exactMatch]
              ELSE [started |-> started, child |-> "running",
                    errorEmitted |-> FALSE, killed |-> FALSE,
                    exactMatch |-> exactMatch,
                    todo |-> IF started = "ok"
                             THEN RipgrepStdout(Word, tree, content, exactMatch)
                             ELSE <<>>,
                    output |-> <<>>, timer |-> "armed", promise |-> "pending",
                    value |-> <<>>]

\* rgProcess.stdout.on('data', ...): output += data.toString()
RgData ==
    /\ rg.child = "running"
    /\ rg.todo # <<>>
    /\ rg' = [rg EXCEPT !.output = Append(@, Head(rg.todo)), !.todo = Tail(@)]
    /\ UNCHANGED <<tree, content, handlerVars, bootVars, conc, unitVars>>

\* The child could not be started: 'error' is emitted.
RgError ==
    /\ rg.child = "running"
    /\ rg.started = "enoent"
    /\ ~rg.errorEmitted
    /\ rg' = OnError([rg EXCEPT !.errorEmitted = TRUE])
    /\ UNCHANGED <<tree, content, handlerVars, bootVars, conc, unitVars>>

\* The exit codes a close can carry: "null" after a kill, "-2" after ENOENT,
\* 0 (lines printed) or 1 (none) once the whole output was read, 2 at any
\* time (ripgrep's own error).
CloseCodes(r) ==
    IF r.killed THEN {"null"}
    ELSE IF r.started = "enoent" THEN (IF r.errorEmitted THEN {"-2"} ELSE {})
    ELSE {"2"} \cup (IF r.todo # <<>> THEN {}
                     ELSE IF r.output # <<>> THEN {"0"} ELSE {"1"})

\* 'close' is emitted: both close handlers run, in registration order.
RgClose ==
    /\ rg.child = "running"
    /\ \E code \in CloseCodes(rg) :
         rg' = OnCloseClearTimeout(OnCloseResolve([rg EXCEPT !.child = "closed"], code))
    /\ UNCHANGED <<tree, content, handlerVars, bootVars, conc, unitVars>>

\* The 30 s timer fires.
RgTimeout ==
    /\ rg.timer = "armed"
    /\ rg' = OnTimeout(rg)
    /\ UNCHANGED <<tree, content, handlerVars, bootVars, conc, unitVars>>

RgNext == RgData \/ RgError \/ RgClose \/ RgTimeout

\* An armed timer of a running event loop fires.
RgSpec == RgInit /\ [][RgNext]_vars /\ WF_vars(RgTimeout)

(***************************************************************************)
(* The bootstrap: findAvailablePort, startServer, the 'error' handlers of  *)
(* the server object, the signal handlers and the exits of the process     *)
(***************************************************************************)

\* const DEFAULT_PORT = 3000
DEFAULT_PORT == 3000

\* The width of the range findAvailablePort probes (startPort + 1000 in the
\* code), the startServer calls and the client connections the model follows.
PortSpan == 2

MaxStarts == 4

MaxConns == 1

\* startPort .. endPort - 1
Ports == DEFAULT_PORT..(DEFAULT_PORT + PortSpan - 1)

\* A startServer call at the head of findAvailablePort's loop.
NewRun == [phase |-> "probe", port |-> DEFAULT_PORT, tried |-> {}, listener |-> "none"]

\* The ports the transient listeners of findAvailablePort hold.
TransientPorts(rs) ==
    { rs[i].port : i \in { n \in 1..Len(rs) : rs[n].listener = "listening" } }

\* A listen(port) can bind.
PortFree(port, others, rs) == port \notin others /\ port \notin TransientPorts(rs)

\* A probe that takes a port whose listen was rejected for a free one.
ProbeListenIgnoresError(run, free) ==
    IF free THEN [run EXCEPT !.phase = "bound", !.listener = "listening"]
    ELSE [run EXCEPT !.phase = "found"]

\* One turn of the loop up to the listen: the transient server listens on
\* the port, or 'error' rejects the promise and the catch continues with the
\* next port.
ProbeListen(run, free) ==
    IF free THEN [run EXCEPT !.phase = "bound", !.listener = "listening"]
    ELSE [run EXCEPT !.port = run.port + 1, !.tried = run.tried \cup {run.port}]

\* The listen callback has called server.close(); 'close' resolves the
\* promise and findAvailablePort returns the port.
ProbeClose(run) == [run EXCEPT !.phase = "found", !.listener = "closed"]

\* The status of process.exit for each way out.
ExitCode(why) ==
    CASE why \in {"no ports", "listen threw"} -> 1
      [] why \in {"shutdown", "terminal"} -> 0

\* startServer() is first called.
BootInit ==
    /\ tree = {}
    /\ content = <<Word>>
    /\ HandlerIdle
    /\ erred = FALSE
    /\ rg = RgIdle
    /\ busy \in SUBSET Ports
    /\ runs = <<NewRun>>
    /\ server = ServerIdle
    /\ terminals = 0
    /\ conns = [c \in 1..MaxConns |-> "none"]
    /\ signal = [received |-> FALSE, inflight |-> {}]
    /\ exit = "none"
    /\ conc = ConcIdle
    /\ UnitIdle

\* for (port ...) { await new Promise(... server.listen(port ...)) }
Probe(i) ==
    /\ exit = "none"
    /\ runs[i].phase = "probe"
    /\ runs[i].port \in Ports
    /\ runs' = [runs EXCEPT ![i] = ProbeListen(runs[i], PortFree(runs[i].port, busy, runs))]
    /\ UNCHANGED <<searchVars, busy, server, terminals, conns, signal, exit>>

\* server.once('close', () => resolve(port)); return port
ProbeClosed(i) ==
    /\ exit = "none"
    /\ runs[i].phase = "bound"
    /\ runs' = [runs EXCEPT ![i] = ProbeClose(runs[i])]
    /\ UNCHANGED <<searchVars, busy, server, terminals, conns, signal, exit>>

\* The loop ends: throw new Error('No available ports found ...'), caught by
\* startServer, which logs and calls process.exit(1).
NoPorts(i) ==
    /\ exit = "none"
    /\ runs[i].phase = "probe"
    /\ runs[i].port \notin Ports
    /\ runs' = [runs EXCEPT ![i].phase = "threw"]
    /\ exit' = "no ports"
    /\ UNCHANGED <<searchVars, busy, server, terminals, conns, signal>>

\* startServer after its two awaits: server.listen(port, callback), which
\* throws when the server already has a handle (the catch then exits with
\* 1), and server.on('error', handler); then the event that listen queued.
\* 'listening' runs every callback registered by a listen call so far.
\* 'error' runs every handler registered so far: for EADDRINUSE each calls
\* server.close() and startServer(), for another code each only logs.
Listen(i) ==
    /\ exit = "none"
    /\ runs[i].phase = "found"
    /\ IF server.handle # {}
       THEN /\ runs' = [runs EXCEPT ![i].phase = "threw"]
            /\ exit' = "listen threw"
            /\ UNCHANGED <<server, terminals>>
       ELSE \E code \in (IF PortFree(runs[i].port, busy, runs) THEN {"ok"}
                         ELSE {"EADDRINUSE"}) \cup {"EOTHER"} :
              LET registered ==
                    [server EXCEPT !.listeningCallbacks = @ + 1,
                                   !.errorHandlers = @ + 1]
                  returned == [runs EXCEPT ![i].phase = "registered"]
              IN  CASE code = "ok" ->
                         /\ server' = [registered EXCEPT
                                          !.handle = {runs[i].port},
                                          !.listeningCallbacks = 0]
                         /\ terminals' = terminals + registered.listeningCallbacks
                         /\ runs' = returned
                         /\ exit' = exit
                    [] code = "EADDRINUSE" ->
                         /\ Len(runs) + registered.errorHandlers <= MaxStarts
                         /\ server' = registered
                         /\ runs' = returned
                                     \o [n \in 1..registered.errorHandlers |-> NewRun]
                         /\ UNCHANGED <<terminals, exit>>
                    [] code = "EOTHER" ->
                         /\ server' = [registered EXCEPT !.otherError = TRUE]
                         /\ runs' = returned
                         /\ UNCHANGED <<terminals, exit>>
    /\ UNCHANGED <<searchVars, busy, conns, signal>>

\* A client connects and sends a request; the listening server accepts it.
Accept(c) ==
    /\ exit = "none"
    /\ server.handle # {}
    /\ conns[c] = "none"
    /\ conns' = [conns EXCEPT ![c] = "open"]
    /\ UNCHANGED <<searchVars, busy, runs, server, terminals, signal, exit>>

\* The handler ends the response and the connection closes.  When a
\* server.close(callback) is waiting, the server has no handle and this was
\* the last connection, 'close' is emitted and the callback exits with 0.
Respond(c) ==
    /\ exit = "none"
    /\ conns[c] = "open"
    /\ conns' = [conns EXCEPT ![c] = "answered"]
    /\ exit' = IF /\ server.closing
                  /\ server.handle = {}
                  /\ \A d \in DOMAIN conns : d # c => conns[d] # "open"
               THEN "shutdown" ELSE exit
    /\ UNCHANGED <<searchVars, busy, runs, server, terminals, signal>>

\* process.on('SIGINT' / 'SIGTERM'): server.close(callback) releases the
\* handle; with no connection open 'close' is emitted at once and the
\* callback calls process.exit(0).
Signal ==
    /\ exit = "none"
    /\ server' = [server EXCEPT !.handle = {}, !.closing = TRUE]
    /\ signal' = IF signal.received THEN signal
                 ELSE [received |-> TRUE,
                       inflight |-> { c \in DOMAIN conns : conns[c] = "open" }]
    /\ exit' = IF \A c \in DOMAIN conns : conns[c] # "open" THEN "shutdown" ELSE exit
    /\ UNCHANGED <<searchVars, busy, runs, terminals, conns>>

\* promptSearch reads 'exit': rl.close(); process.exit(0).
TerminalExit ==
    /\ exit = "none"
    /\ terminals > 0
    /\ exit' = "terminal"
    /\ UNCHANGED <<searchVars, busy, runs, server, terminals, conns, signal>>

\* Another process binds a port, or releases one, while the bootstrap runs.
OtherProcess ==
    /\ exit = "none"
    /\ \E i \in 1..Len(runs) : runs[i].phase \in {"probe", "bound", "found"}
    /\ \E port \in Ports :
         /\ port \notin TransientPorts(runs)
         /\ port \notin server.handle
         /\ busy' = IF port \in busy THEN busy \ {port} ELSE busy \cup {port}
    /\ UNCHANGED <<searchVars, runs, server, terminals, conns, signal, exit>>

BootNext ==
    \/ \E i \in 1..Len(runs) : Probe(i)
    \/ \E i \in 1..Len(runs) : ProbeClosed(i)
    \/ \E i \in 1..Len(runs) : NoPorts(i)
    \/ \E i \in 1..Len(runs) : Listen(i)
    \/ \E c \in DOMAIN conns : Accept(c)
    \/ \E c \in DOMAIN conns : Respond(c)
    \/ Signal
    \/ TerminalExit
    \/ OtherProcess

\* Every accepted request is answered in the end.
BootSpec ==
    BootInit /\ [][BootNext]_vars /\ WF_vars(\E c \in DOMAIN conns : Respond(c))

(***************************************************************************)
(* Two requests in flight at once: each req.on('end') callback with its    *)
(* own locals, interleaved at the awaits of the runner calls               *)
(***************************************************************************)

\* The term of the second request, "x".
Word2 == <<"x">>

\* The two requests: different terms, the same directory.
ConcWords == <<Word, Word2>>

\* A variant in which the accumulator is one module-level array.
ModuleScope(id) == 1

\* `let references: Location[] = []` is declared inside the callback: each
\* request has its own array.
ReferencesScope(id) == id

\* What a runner returns to the handler of a request on this machine when
\* nothing fails on the way.
ConcRunner(word, name) ==
    CASE name = "typescript" ->
           Returned(FindReferencesWithTypeScript(word, tree, content, "noconfig"))
      [] name = "grep" ->
           FindReferencesWithGrep(word, tree, content,
              CheckSearchTools(env.rgInstalled, env.grepInstalled),
              IF RgSpawnPath \in env.rgInstalled THEN "close_ok" ELSE "error",
              IF RgSpawnPath \in env.rgInstalled THEN "close_ok" ELSE "error",
              IF env.grepInstalled THEN "ok" ELSE "fail",
              IF env.grepInstalled THEN "ok" ELSE "fail", FALSE)
      [] name = "node" -> RunScanner(word, tree, content, FALSE)

\* Both requests have been read; neither callback has run.
ConcInit ==
    /\ tree = Paths
    /\ content \in Contents
    /\ request = NoRequest
    /\ pc = "listening"
    /\ strategy = "undefined"
    /\ references = <<>>
    /\ results = NoResults
    /\ invoked = <<>>
    /\ failed = {}
    /\ delegated = FALSE
    /\ analysis = "noconfig"
    /\ response = NoResponse
    /\ erred = FALSE
    /\ rg = RgIdle
    /\ BootIdle
    /\ UnitIdle
    /\ \E e \in Environments :
         env = [probed |-> TRUE, rgInstalled |-> e.rgInstalled,
                grepInstalled |-> e.grepInstalled]
    /\ \E s1, s2 \in {"all", "typescript", "grep", "node"} :
         conc = [handlers |->
                    [id \in 1..2 |->
                       [word |-> ConcWords[id],
                        strategy |-> IF id = 1 THEN s1 ELSE s2,
                        pc |-> "start", response |-> NoResponse]],
                 references |-> [scope \in 1..2 |-> <<>>]]

\* The handler of request id runs from one await to the next: it stores what
\* the awaited runner returned (at the start: references = []), takes the
\* next strategy block, and at the end writes the 200 response.
ConcStep(id) ==
    LET h == conc.handlers[id]
        scope == ReferencesScope(id)
        refs == IF h.pc = "start" THEN <<>>
                ELSE conc.references[scope] \o ConcRunner(h.word, h.pc).value
        next == NextCall(h.pc, h.strategy, refs)
    IN  /\ h.pc # "done"
        /\ conc' = [handlers |->
                       [conc.handlers EXCEPT
                          ![id] = [h EXCEPT !.pc = next,
                                            !.response = IF next = "done"
                                                         THEN OkResponse(refs)
                                                         ELSE h.response]],
                    references |-> [conc.references EXCEPT ![scope] = refs]]
        /\ UNCHANGED <<tree, content, handlerVars, rg, bootVars, unitVars>>

ConcNext == \E id \in 1..2 : ConcStep(id)

ConcSpec == ConcInit /\ [][ConcNext]_vars

(***************************************************************************)
(* One findReferencesWithGrep call, with the results of its two searches   *)
(***************************************************************************)

\* A search term that ends in a blank, "oo ".
WordBlank == <<"o", "o", " ">>

ToolWords == {Word, WordBlank}

\* The lines of LineSet, "x foo " (a blank at the end of the line) and
\* "foo:4:x" (a colon, digits and a colon inside the text).
ToolLines ==
    LineSet \cup { <<"x", " ", "f", "o", "o", " ">>,
                   <<"f", "o", "o", ":", "4", ":", "x">> }

ToolContents == UNION { [1..n -> ToolLines] : n \in 1..MaxLines }

\* findReferencesWithGrep(word, directory) is called.
ToolInit ==
    /\ tree \in Trees
    /\ content \in ToolContents
    /\ HandlerIdle
    /\ erred = FALSE
    /\ rg = RgIdle
    /\ BootIdle
    /\ conc = ConcIdle
    /\ scan = ScanIdle
    /\ keys = KeysIdle
    /\ terminal = TerminalIdle
    /\ \E word \in ToolWords :
         tool = [ToolIdle EXCEPT !.pc = "start", !.word = word]

\* The call runs to its return: checkSearchTools, then the substring search
\* (allMatches, partialOutput) and the whole-word search (exactMatches,
\* exactOutput) of the branch taken, each settled by its event.
ToolRun ==
    /\ tool.pc = "start"
    /\ \E e \in Environments, allEvent, exactEvent \in RgEvents \cup GrepEvents,
          scanFails \in BOOLEAN :
         LET tools == CheckSearchTools(e.rgInstalled, e.grepInstalled)
             all == IF tools.ripgrep
                    THEN SearchWithRipgrep(allEvent, tool.word, tree, content, FALSE).value
                    ELSE IF allEvent = "ok"
                         THEN ParseGrepOutput(GrepStdout(tool.word, tree, content, FALSE), FALSE)
                         ELSE <<>>
             exact == IF tools.ripgrep
                      THEN SearchWithRipgrep(exactEvent, tool.word, tree, content, TRUE).value
                      ELSE IF exactEvent = "ok"
                           THEN ParseGrepOutput(GrepStdout(tool.word, tree, content, TRUE), TRUE)
                           ELSE <<>>
         IN  /\ IF tools.ripgrep
                THEN {allEvent, exactEvent} \subseteq RgEventsFor(e.rgInstalled)
                ELSE {allEvent, exactEvent} \subseteq GrepEventsFor(e.grepInstalled)
             /\ tool' = [pc |-> "done", word |-> tool.word,
                         ripgrep |-> tools.ripgrep,
                         allEvent |-> allEvent, exactEvent |-> exactEvent,
                         all |-> all, exact |-> exact,
                         returned |->
                           FindReferencesWithGrep(tool.word, tree, content, tools,
                              allEvent, exactEvent, exactEvent, allEvent, scanFails)]
    /\ UNCHANGED <<tree, content, handlerVars, rg, bootVars, conc, scan, keys, terminal>>

ToolNext == ToolRun

ToolSpec == ToolInit /\ [][ToolNext]_vars

(***************************************************************************)
(* The two match loops of the scanner, one regex.exec call at a time, for  *)
(* terms that new RegExp reads as patterns                                 *)
(***************************************************************************)

\* Most iterations of the while loops whose pushes the model tells apart.
MaxPushes == 2

\* The term "x*": as a regular expression, zero or more x.
WordStar == <<"x", "*">>

ScanWords == {Word, Word2, WordStar}

\* The position after the match of new RegExp(word, 'gi') that starts at
\* position i of line, 0 when there is none, for the patterns of ScanWords:
\* characters, the last of them possibly under a star.  The star takes as
\* many characters as what follows it allows (greedy, backtracking), the i
\* flag ignores case, and wordEnd asks for \b at the end.
RegexEnd(word, line, i, wordEnd) ==
    LET star == Len(word) >= 2 /\ word[Len(word)] = "*"
        literal == IF star THEN SubSeq(word, 1, Len(word) - 2) ELSE word
        j == i + Len(literal)
        ends == IF ~MatchAt(literal, line, i) THEN {}
                ELSE IF star
                     THEN { e \in j..(Len(line) + 1) :
                              \A q \in j..(e - 1) :
                                  Lower(line[q]) = Lower(word[Len(word) - 1]) }
                     ELSE {j}
        ok == { e \in ends : wordEnd => Boundary(line, e) }
    IN  IF ok = {} THEN 0 ELSE CHOOSE e \in ok : \A o \in ok : o <= e

\* regex.exec(line) of a g-flagged expression whose lastIndex is lastIndex:
\* the leftmost match that starts at or after it.  index and end are 1-based
\* positions, end the position after the match.
RegexExec(word, line, lastIndex, exact) ==
    LET starts == { p \in (lastIndex + 1)..(Len(line) + 1) :
                      /\ exact => Boundary(line, p)
                      /\ RegexEnd(word, line, p, exact) # 0 }
        p == CHOOSE q \in starts : \A o \in starts : q <= o
    IN  IF starts = {} THEN [found |-> FALSE, index |-> 0, end |-> 0]
        ELSE [found |-> TRUE, index |-> p,
              end |-> RegexEnd(word, line, p, exact)]

\* readFile has returned the lines of one file; the loop over the lines is
\* at its first line, before the first exactRegex.exec.
ScanInit ==
    /\ tree = {PathList[1]}
    /\ content \in Contents
    /\ HandlerIdle
    /\ erred = FALSE
    /\ rg = RgIdle
    /\ BootIdle
    /\ conc = ConcIdle
    /\ tool = ToolIdle
    /\ keys = KeysIdle
    /\ terminal = TerminalIdle
    /\ \E word \in ScanWords :
         scan = [pc |-> "exact", word |-> word, line |-> 1, lastIndex |-> 0,
                 match |-> 0, exactColumns |-> {}, pushed |-> 0]

\* The condition of the while loop: exec returns a match, which is assigned
\* to `match`; lastIndex is now the end of the match.
ScanMatch ==
    LET m == RegexExec(scan.word, content[scan.line], scan.lastIndex,
                       scan.pc = "exact")
    IN  /\ scan.pc \in {"exact", "partial"}
        /\ scan.match = 0
        /\ m.found
        /\ scan' = [scan EXCEPT !.match = m.index, !.lastIndex = m.end - 1]
        /\ UNCHANGED <<tree, content, handlerVars, rg, bootVars, conc, tool, keys, terminal>>

\* The body of the while loop: an exact match is added to exactMatches and
\* pushed, a substring match is pushed unless its key is in exactMatches;
\* then the condition is evaluated again.  pushed is locations.length,
\* counted up to MaxPushes.
ScanPush ==
    LET push == scan.pc = "exact" \/ scan.match \notin scan.exactColumns
    IN  /\ scan.pc \in {"exact", "partial"}
        /\ scan.match # 0
        /\ scan' = [scan EXCEPT
                      !.match = 0,
                      !.exactColumns = IF scan.pc = "exact"
                                       THEN @ \cup {scan.match} ELSE @,
                      !.pushed = IF push /\ @ < MaxPushes THEN @ + 1 ELSE @]
        /\ UNCHANGED <<tree, content, handlerVars, rg, bootVars, conc, tool, keys, terminal>>

\* exec returns null and resets lastIndex: the while loop ends.  After the
\* first loop comes the second, after the second the next line, after the
\* last line the scan of the file has returned.
ScanNoMatch ==
    LET m == RegexExec(scan.word, content[scan.line], scan.lastIndex,
                       scan.pc = "exact")
    IN  /\ scan.pc \in {"exact", "partial"}
        /\ scan.match = 0
        /\ ~m.found
        /\ scan' = IF scan.pc = "exact"
                   THEN [scan EXCEPT !.pc = "partial", !.lastIndex = 0]
                   ELSE IF scan.line < Len(content)
                        THEN [scan EXCEPT !.pc = "exact", !.lastIndex = 0,
                                          !.line = @ + 1, !.exactColumns = {}]
                        ELSE [scan EXCEPT !.pc = "returned", !.lastIndex = 0]
        /\ UNCHANGED <<tree, content, handlerVars, rg, bootVars, conc, tool, keys, terminal>>

ScanNext == ScanMatch \/ ScanPush \/ ScanNoMatch

\* The loops are synchronous code: a started iteration runs.
ScanSpec == ScanInit /\ [][ScanNext]_vars /\ WF_vars(ScanNext)

(***************************************************************************)
(* The uniqueRefs map on two records whose relative paths hold colons and  *)
(* digits                                                                  *)
(***************************************************************************)

\* Most characters of a relative path after its first one.
MaxKeyLen == 2

\* Relative paths: "a" followed by up to MaxKeyLen characters ':' and '1'.
KeyPaths ==
    { <<"a">> \o t : t \in UNION { [1..n -> {":", "1"}] : n \in 0..MaxKeyLen } }

\* Line and column numbers of one and of two digits.
KeyNumbers == {1, 11}

\* The fields of an enhanced record that the map key is built from.
KeyRecords == [relativePath : KeyPaths, line : KeyNumbers, column : KeyNumbers]

\* enhancedReferences holds two records.
KeyInit ==
    /\ tree = {}
    /\ content = <<>>
    /\ HandlerIdle
    /\ erred = FALSE
    /\ rg = RgIdle
    /\ BootIdle
    /\ conc = ConcIdle
    /\ tool = ToolIdle
    /\ scan = ScanIdle
    /\ terminal = TerminalIdle
    /\ \E a, b \in KeyRecords :
         keys = [pc |-> "start", enhancedReferences |-> <<a, b>>,
                 uniqueRefs |-> <<>>]

\* uniqueRefs = Array.from(new Map(...).values())
Deduplicate ==
    /\ keys # KeysIdle
    /\ keys.pc = "start"
    /\ keys' = [keys EXCEPT !.pc = "done",
                            !.uniqueRefs = UniqueRefs(keys.enhancedReferences)]
    /\ UNCHANGED <<tree, content, handlerVars, rg, bootVars, conc, tool, scan, terminal>>

KeyNext == Deduplicate

KeySpec == KeyInit /\ [][KeyNext]_vars

(***************************************************************************)
(* The terminal interface                                                  *)
(***************************************************************************)

\* promptSearch prints what findReferencesWithGrep(word, directory) returned,
\* grouped by file: under each `${file}:` one `Line ${ref.line}: ${ref.text}`
\* per record.  The matches printed, as <<file, line, text>>.
PromptSearch(grepReferences) ==
    { <<grepReferences[i].file, grepReferences[i].line, grepReferences[i].text>> :
        i \in 1..Len(grepReferences) }

(***************************************************************************)
(* The promptSearch loop of startTerminalInterface                         *)
(***************************************************************************)

\* Most prompts the model tells apart.
MaxPrompts == 2

\* What is typed at the prompt: "exit", "Exit", "exit " and "foo".
TerminalInputs ==
    { <<"e", "x", "i", "t">>, <<"E", "x", "i", "t">>,
      <<"e", "x", "i", "t", " ">>, Word }

\* startTerminalInterface() has called promptSearch(): rl.question is asked.
TerminalInit ==
    /\ tree = Paths
    /\ content \in Contents
    /\ HandlerIdle
    /\ erred = FALSE
    /\ rg = RgIdle
    /\ BootIdle
    /\ conc = ConcIdle
    /\ tool = ToolIdle
    /\ scan = ScanIdle
    /\ keys = KeysIdle
    /\ terminal = [TerminalIdle EXCEPT !.pc = "prompt", !.prompts = 1]

\* The question is answered with a line that is 'exit' in lower case:
\* rl.close() and process.exit(0).
QuestionExit ==
    /\ terminal.pc = "prompt"
    /\ \E word \in TerminalInputs :
         /\ LowerSeq(word) = <<"e", "x", "i", "t">>
         /\ terminal' = [terminal EXCEPT !.pc = "exited", !.word = word]
    /\ exit' = "terminal"
    /\ UNCHANGED <<tree, content, handlerVars, rg, busy, runs, server, terminals,
                   conns, signal, conc, tool, scan, keys>>

\* The question is answered with any other line: findReferencesWithGrep is
\* called with it and awaited.
QuestionSearch ==
    /\ terminal.pc = "prompt"
    /\ \E word \in TerminalInputs :
         /\ LowerSeq(word) # <<"e", "x", "i", "t">>
         /\ terminal' = [terminal EXCEPT !.pc = "searching", !.word = word]
    /\ UNCHANGED <<tree, content, handlerVars, rg, bootVars, conc, tool, scan, keys>>

\* A loop whose catch block ends it: no promptSearch() after an error.
SearchSettlesErrorEnds ==
    /\ terminal.pc = "searching"
    /\ \E e \in Environments, allEvent, exactEvent \in RgEvents \cup GrepEvents,
          scanFails \in BOOLEAN :
         LET tools == CheckSearchTools(e.rgInstalled, e.grepInstalled)
             r == FindReferencesWithGrep(terminal.word, tree, content, tools,
                     allEvent, exactEvent, exactEvent, allEvent, scanFails)
         IN  /\ IF tools.ripgrep
                THEN {allEvent, exactEvent} \subseteq RgEventsFor(e.rgInstalled)
                ELSE {allEvent, exactEvent} \subseteq GrepEventsFor(e.grepInstalled)
             /\ terminal' =
                  [terminal EXCEPT
                     !.pc = IF r.threw THEN "ended" ELSE "prompt",
                     !.printed = IF r.threw THEN "error" ELSE "results",
                     !.matches = IF r.threw THEN {} ELSE PromptSearch(r.value),
                     !.prompts = IF ~r.threw /\ @ < MaxPrompts THEN @ + 1 ELSE @]
    /\ UNCHANGED <<tree, content, handlerVars, rg, bootVars, conc, tool, scan, keys>>

\* The awaited findReferencesWithGrep settles: the matches are printed, or
\* the catch block prints 'Search error:'; then promptSearch() is called
\* again.  prompts counts the questions asked, up to MaxPrompts.
SearchSettles ==
    /\ terminal.pc = "searching"
    /\ \E e \in Environments, allEvent, exactEvent \in RgEvents \cup GrepEvents,
          scanFails \in BOOLEAN :
         LET tools == CheckSearchTools(e.rgInstalled, e.grepInstalled)
             r == FindReferencesWithGrep(terminal.word, tree, content, tools,
                     allEvent, exactEvent, exactEvent, allEvent, scanFails)
         IN  /\ IF tools.ripgrep
                THEN {allEvent, exactEvent} \subseteq RgEventsFor(e.rgInstalled)
                ELSE {allEvent, exactEvent} \subseteq GrepEventsFor(e.grepInstalled)
             /\ terminal' =
                  [terminal EXCEPT
                     !.pc = "prompt",
                     !.printed = IF r.threw THEN "error" ELSE "results",
                     !.matches = IF r.threw THEN {} ELSE PromptSearch(r.value),
                     !.prompts = IF @ < MaxPrompts THEN @ + 1 ELSE @]
    /\ UNCHANGED <<tree, content, handlerVars, rg, bootVars, conc, tool, scan, keys>>

TerminalNext == QuestionExit \/ QuestionSearch \/ SearchSettles

TerminalSpec == TerminalInit /\ [][TerminalNext]_vars

(***************************************************************************)
(* Properties                                                              *)
(***************************************************************************)

\* The request was answered with 200.
Answered200 == pc = "done" /\ response.status = 200

\* The concatenation the handler hands to the reconciler.
Concatenation == results.typescript \o results.grep \o results.node

\* (relativePath, line, column) of an enhanced record.
Identity(ref) == <<ref.relativePath, ref.line, ref.column>>

\* The identity an accumulated record gets when it is enhanced.
IdentityOf(location) == Identity(EnhanceLocation(location, JoinPath(Root)))

\* C1: in every 200 result summary.totalMatches is the number of references
\* and exactMatches + partialMatches is totalMatches, records without an
\* isExactMatch field included.
C1_SummaryCounts ==
    Answered200 =>
        /\ response.result.summary.totalMatches = Len(response.result.references)
        /\ response.result.summary.exactMatches
             + response.result.summary.partialMatches
           = response.result.summary.totalMatches

\* A 200 result that holds a record without isExactMatch next to an exact one.
C1_Witness ==
    /\ Answered200
    /\ \E i, j \in 1..Len(response.result.references) :
         /\ response.result.references[i].isExactMatch = "undefined"
         /\ response.result.references[j].isExactMatch = "true"

\* C2: no two records of a 200 result have the same
\* (relativePath, line, column).
C2_UniqueIdentity ==
    Answered200 =>
        \A i, j \in 1..Len(response.result.references) :
            i # j => Identity(response.result.references[i])
                     # Identity(response.result.references[j])

\* A 200 result whose concatenation repeats a location inside the
\* symbol-aware runner's output and again in the external-tool runner's.
C2_Witness ==
    /\ Answered200
    /\ response.result.references # <<>>
    /\ \E i, j \in 1..Len(results.typescript) :
         /\ i # j
         /\ IdentityOf(results.typescript[i]) = IdentityOf(results.typescript[j])
         /\ \E k \in 1..Len(results.grep) :
              IdentityOf(results.grep[k]) = IdentityOf(results.typescript[i])

\* Positions i < j of the concatenation that hold the same location, come
\* from different runners, and of which one is exact and the other is not.
ExactPartialClash(i, j) ==
    LET c == Concatenation
        runnerOf(n) == IF n <= Len(results.typescript) THEN "typescript"
                       ELSE IF n <= Len(results.typescript) + Len(results.grep)
                            THEN "grep" ELSE "node"
    IN  /\ i < j
        /\ IdentityOf(c[i]) = IdentityOf(c[j])
        /\ runnerOf(i) # runnerOf(j)
        /\ Truthy(c[i].isExactMatch) # Truthy(c[j].isExactMatch)

\* C3: when one runner reports a location as exact and another reports it as
\* not exact, the 200 result holds exactly one record for it, and that
\* record is the enhancement of the last record of the location in the
\* concatenation symbol-aware, external-tool, scanner.
C3_LastRunnerWins ==
    Answered200 =>
        \A i, j \in 1..Len(Concatenation) :
            ExactPartialClash(i, j) =>
                LET c == Concatenation
                    last == CHOOSE n \in 1..Len(c) :
                               /\ IdentityOf(c[n]) = IdentityOf(c[i])
                               /\ \A m \in (n + 1)..Len(c) :
                                      IdentityOf(c[m]) # IdentityOf(c[i])
                    kept == { n \in 1..Len(response.result.references) :
                                Identity(response.result.references[n])
                                = IdentityOf(c[i]) }
                IN  /\ Cardinality(kept) = 1
                    /\ \A n \in kept :
                          response.result.references[n]
                          = EnhanceLocation(c[last], JoinPath(Root))

\* A 200 result for which two runners disagreed on a location.
C3_Witness ==
    /\ Answered200
    /\ \E i, j \in 1..Len(Concatenation) : ExactPartialClash(i, j)

\* C4: a parsed request whose word or directory is missing or empty, or
\* whose directory does not exist, is answered 400 with details, and no
\* runner is called for it.
C4_UserError400 ==
    (/\ pc = "done"
     /\ request.body = "json"
     /\ \/ Missing(request.word)
        \/ Missing(request.directory)
        \/ request.directory = "nonexistent")
    => /\ response.status = 400
       /\ response.details # NoDetails
       /\ invoked = <<>>
       /\ ~delegated
       /\ results = NoResults

\* A request for a directory that does not exist has been answered.
C4_Witness ==
    /\ pc = "done"
    /\ request.word = "foo"
    /\ request.directory = "nonexistent"
    /\ response.status = 400

\* C5: when a runner throws, the request still ends with 200; every runner
\* the strategy asks for was called, and the result is the reconciliation of
\* what the runners that did not throw returned.
C5_RunnerFailureIsNotAnError ==
    (pc = "done" /\ failed # {}) =>
        /\ response.status = 200
        /\ \A name \in failed : results[name] = <<>>
        /\ TypeScriptApplies(strategy) => \E n \in 1..Len(invoked) : invoked[n] = "typescript"
        /\ GrepApplies(strategy) => \E n \in 1..Len(invoked) : invoked[n] = "grep"
        /\ NodeApplies(strategy, results.typescript \o results.grep)
             => \E n \in 1..Len(invoked) : invoked[n] = "node"
        /\ response.result = SearchResult(Concatenation, JoinPath(Root))

\* The symbol-aware runner threw and the response still holds the records
\* of the external-tool runner.
C5_Witness ==
    /\ pc = "done"
    /\ "typescript" \in failed
    /\ results.grep # <<>>
    /\ response.status = 200
    /\ Len(response.result.references) > 0

\* C6: the handler calls the scanner exactly when the strategy is 'node', or
\* it is 'all' (given or defaulted) and the symbol-aware and external-tool
\* steps left no record; until the response it has called it at most under
\* that condition.
C6_ScannerDispatch ==
    LET scanner == request.searchStrategy = "node"
        all == request.searchStrategy \in {"all", "undefined", "empty"}
        called == \E n \in 1..Len(invoked) : invoked[n] = "node"
        due == scanner \/ (all /\ results.typescript \o results.grep = <<>>)
    IN  /\ called => due
        /\ Answered200 => (due => called)
        /\ called => \A n \in 1..Len(invoked) :
                        invoked[n] = "node" => n = Len(invoked)

\* Under the defaulted strategy the earlier runners found nothing and the
\* scanner's records were returned.
C6_Witness ==
    /\ Answered200
    /\ request.searchStrategy = "undefined"
    /\ results.typescript \o results.grep = <<>>
    /\ invoked = <<"typescript", "grep", "node">>
    /\ results.node # <<>>

\* C7: the external-tool runner returns the scanner's result, not an empty
\* list, when neither ripgrep nor grep is installed (README, Search
\* Strategies: the scanner is "used if neither ripgrep nor grep is
\* available").
C7_ScannerWhenNoToolInstalled ==
    (/\ env.probed
     /\ pc # "grep"
     /\ "grep" \notin failed
     /\ env.rgInstalled = {}
     /\ ~env.grepInstalled)
    => results.grep = FindReferencesWithNode(Word, tree, content)

\* The promise of the call is settled for good.
RgSettledOnce ==
    rg.promise # "pending" => (rg'.promise = rg.promise /\ rg'.value = rg.value)

\* C8: one ripgrep invocation completes.  Once the timer has fired the
\* child has been killed and the call has resolved to the empty list, which
\* no later close or error changes; a child that closed before the timer
\* fired has cancelled it, and a cancelled timer never fires; a pending call
\* is eventually settled.
C8_InvocationCompletes ==
    /\ [](rg.timer = "fired" =>
            /\ rg.killed
            /\ rg.promise = "resolved"
            /\ rg.value = <<>>)
    /\ [][RgSettledOnce]_vars
    /\ []((rg.child = "closed" /\ ~rg.killed) => rg.timer = "cleared")
    /\ [][rg.timer = "cleared" => rg'.timer = "cleared"]_vars
    /\ [](rg.promise = "pending" => rg.timer = "armed")
    /\ (rg.promise = "pending" ~> rg.promise = "resolved")

\* The timer fired on a child that had printed matches, and the child has
\* closed since.
C8_Witness ==
    /\ rg.timer = "fired"
    /\ rg.output # <<>>
    /\ rg.child = "closed"

\* C9: a root whose only file holds the lines "x foo" and "x foox" yields
\* one exact and one partial record under every strategy the handler knows
\* and every installation, when no runner throws.
C9_OneExactOnePartial ==
    (/\ Answered200
     /\ tree = { <<"a.ts">> }
     /\ content = << <<"x", " ", "f", "o", "o">>,
                     <<"x", " ", "f", "o", "o", "x">> >>
     /\ request.searchStrategy \in {"undefined", "all", "typescript", "grep", "node"}
     /\ failed = {}
     /\ ~delegated)
    => /\ response.result.summary.exactMatches = 1
       /\ response.result.summary.partialMatches = 1

\* C10: no record of a 200 result has a relativePath through one of the
\* excluded directory names.
C10_NoExcludedDirectory ==
    Answered200 =>
        \A i \in 1..Len(response.result.references) :
            LET segs == SplitPath(response.result.references[i].relativePath)
            IN  \A n \in 1..(Len(segs) - 1) :
                    \A d \in ExcludedDirs : segs[n] # <<d>>

\* The record points at an occurrence of the term as a whole token: at its
\* line and column the file holds the term between word boundaries.
WholeToken(ref) ==
    /\ ref.line \in 1..Len(content)
    /\ ref.column \in 1..Len(content[ref.line])
    /\ ExactAt(Word, content[ref.line], ref.column)

\* C11: every record of a 200 result that points at a whole-token
\* occurrence of the term has isExactMatch true, and summary.exactMatches
\* counts all of them; this includes the symbol-aware runner's records.
C11_WholeTokenIsExact ==
    Answered200 =>
        /\ \A i \in 1..Len(response.result.references) :
              WholeToken(response.result.references[i])
                 => response.result.references[i].isExactMatch = "true"
        /\ response.result.summary.exactMatches
             >= Cardinality({ i \in 1..Len(response.result.references) :
                                WholeToken(response.result.references[i]) })

\* C12: two runners that report the occurrence of the term on the same line
\* of the same file (every line of the model holds one occurrence) give it
\* the same column, so the 200 result holds one record for it.
C12_SameOccurrenceSameColumn ==
    Answered200 =>
        /\ \A i \in 1..Len(results.typescript), j \in 1..Len(results.grep) :
              (/\ results.typescript[i].file = results.grep[j].file
               /\ results.typescript[i].line = results.grep[j].line)
              => results.typescript[i].column = results.grep[j].column
        /\ \A i, j \in 1..Len(response.result.references) :
              (/\ response.result.references[i].relativePath
                    = response.result.references[j].relativePath
               /\ response.result.references[i].line
                    = response.result.references[j].line)
              => i = j

\* C18: a request whose body is not valid JSON is answered 500 with an
\* error and details, and the server stays up: the handler of the next
\* request starts with fresh locals, and a valid request after the 500 is
\* answered 200 with the reconciliation of what its own runners returned.
C18_ServerSurvivesRequestError ==
    /\ (pc = "done" /\ request.body = "invalid") =>
          /\ response.status = 500
          /\ response.error = "Internal server error"
          /\ response.details # NoDetails
          /\ invoked = <<>>
    /\ (erred /\ pc = "listening") => HandlerIdle
    /\ (/\ erred
        /\ pc = "done"
        /\ request.body = "json"
        /\ request.word = "foo"
        /\ request.directory = "root") =>
          /\ response.status = 200
          /\ response.result = SearchResult(Concatenation, JoinPath(Root))
          /\ \A n \in 1..Len(invoked) : invoked[n] \in {"typescript", "grep", "node"}

\* After a 500 a valid request was answered 200 with records.
C18_Witness ==
    /\ erred
    /\ Answered200
    /\ Len(response.result.references) > 0

\* The place of a runner in the handler's order.
Rank(name) == CASE name = "typescript" -> 1 [] name = "grep" -> 2 [] name = "node" -> 3

\* C20: the handler calls the runners one after another in the order
\* symbol-aware, external-tool, scanner: the runner it awaits is the last one
\* called, the runners called before it have settled, a runner not called yet
\* has returned nothing; the accumulated sequence is at all times the
\* concatenation of the returned lists in that order, and it is what the
\* reconciler gets.
C20_RunnersInOrder ==
    /\ \A i, j \in 1..Len(invoked) : i < j => Rank(invoked[i]) < Rank(invoked[j])
    /\ pc \in {"typescript", "grep", "node"} =>
          /\ invoked # <<>>
          /\ invoked[Len(invoked)] = pc
    /\ \A name \in {"typescript", "grep", "node"} :
          (name = pc \/ \A n \in 1..Len(invoked) : invoked[n] # name)
             => (results[name] = <<>> /\ name \notin failed)
    /\ references = Concatenation
    /\ Answered200 => response.result = SearchResult(Concatenation, JoinPath(Root))

\* Two runners were called in turn and both returned records.
C20_Witness ==
    /\ Answered200
    /\ invoked = <<"typescript", "grep">>
    /\ results.typescript # <<>>
    /\ results.grep # <<>>
    /\ results.typescript # results.grep

\* C13: findAvailablePort probes upward from DEFAULT_PORT.  When it has
\* returned a port, the port is in the range, the listen of every lower port
\* of the range was rejected, and the transient listener that bound the port
\* has closed; when it has left the range without a port, every port of the
\* range was rejected, it returns none and the process exits for 'no ports'.
C13_LowestBindablePort ==
    \A i \in 1..Len(runs) :
        /\ runs[i].tried = DEFAULT_PORT..(runs[i].port - 1)
        /\ runs[i].phase \in {"found", "registered"} =>
              /\ runs[i].port \in Ports
              /\ runs[i].listener = "closed"
        /\ runs[i].port \notin Ports =>
              /\ runs[i].tried = Ports
              /\ runs[i].listener = "none"
              /\ runs[i].phase \in {"probe", "threw"}
              /\ runs[i].phase = "threw" => exit = "no ports"

\* Discovery returned the second port of the range after the first was
\* rejected.
C13_Witness ==
    \E i \in 1..Len(runs) :
        /\ runs[i].phase = "found"
        /\ runs[i].port = DEFAULT_PORT + 1
        /\ runs[i].tried = {DEFAULT_PORT}

\* C14: address-in-use at the bind makes startServer run again instead of
\* ending the process: the process exits with status 1 only when a discovery
\* found every port of the range taken.
C14_RetriesInsteadOfExiting ==
    (exit # "none" /\ ExitCode(exit) = 1) =>
        \E i \in 1..Len(runs) : runs[i].phase = "threw" /\ runs[i].tried = Ports

\* C15: a startup failure ends the process with a non-zero status: a
\* discovery without a port, and a bind error other than address-in-use that
\* the listener has reported.
C15_StartupFailureIsFatal ==
    /\ (\E i \in 1..Len(runs) : runs[i].phase = "threw" /\ runs[i].port \notin Ports)
          => (exit # "none" /\ ExitCode(exit) # 0)
    /\ server.otherError => (exit # "none" /\ ExitCode(exit) # 0)

\* C16: after SIGINT or SIGTERM the server has no handle, so it accepts no
\* connection, and when the process has exited it has exited through the
\* callback of server.close with every request that was in flight at the
\* signal answered and none open.
C16_GracefulShutdown ==
    signal.received =>
        /\ server.handle = {}
        /\ exit # "none" =>
              /\ exit = "shutdown"
              /\ \A c \in signal.inflight : conns[c] = "answered"
              /\ \A c \in DOMAIN conns : conns[c] # "open"

\* The response of a request handled with no other request in flight.
RECURSIVE AloneResponse(_, _, _, _)
AloneResponse(word, strat, after, refs) ==
    LET next == NextCall(after, strat, refs)
    IN  IF next = "done" THEN OkResponse(refs)
        ELSE AloneResponse(word, strat, next, refs \o ConcRunner(word, next).value)

\* C17: of two requests whose handlers interleave at the awaits, each gets
\* the response it would get if it were handled alone.
C17_RequestsDoNotInterfere ==
    \A id \in DOMAIN conc.handlers :
        conc.handlers[id].pc = "done" =>
            conc.handlers[id].response
              = AloneResponse(conc.handlers[id].word, conc.handlers[id].strategy,
                              "start", <<>>)

\* The first request was answered with records while the second, which has
\* accumulated records of its own, still awaits a runner.
C17_Witness ==
    /\ conc # ConcIdle
    /\ conc.handlers[1].pc = "done"
    /\ Len(conc.handlers[1].response.result.references) > 0
    /\ conc.handlers[2].pc \in {"grep", "node"}
    /\ conc.references[ReferencesScope(2)] # <<>>
    /\ conc.references[ReferencesScope(2)] # conc.references[ReferencesScope(1)]

\* C19: for the same term, directory and machine the terminal prints the
\* matches of the HTTP result of the default strategy: the <<file, line,
\* text>> printed from what findReferencesWithGrep returned are those of the
\* result's references.
C19_TerminalPrintsHttpResult ==
    (/\ Answered200
     /\ request.searchStrategy = "undefined"
     /\ failed = {})
    => PromptSearch(results.grep)
       = { <<response.result.references[i].file,
             response.result.references[i].line,
             response.result.references[i].text>> :
             i \in 1..Len(response.result.references) }

\* The enhanced concatenation, the input of the deduplication.
Enhanced == [i \in 1..Len(Concatenation) |->
               EnhanceLocation(Concatenation[i], JoinPath(Root))]

\* The first and the last position of a record's identity in the input.
FirstAt(ref) == CHOOSE i \in 1..Len(Enhanced) :
                   /\ Identity(Enhanced[i]) = Identity(ref)
                   /\ \A j \in 1..(i - 1) : Identity(Enhanced[j]) # Identity(ref)

LastAt(ref) == CHOOSE i \in 1..Len(Enhanced) :
                  /\ Identity(Enhanced[i]) = Identity(ref)
                  /\ \A j \in (i + 1)..Len(Enhanced) : Identity(Enhanced[j]) # Identity(ref)

\* C21: the references of a 200 result hold every identity of the enhanced
\* concatenation, in the order in which the identities first occur in it,
\* and for each identity the record of its last occurrence.
C21_FirstOrderLastValue ==
    Answered200 =>
        LET refs == response.result.references
            input == Enhanced
            ids == [i \in 1..Len(input) |-> Identity(input[i])]
            out == [n \in 1..Len(refs) |-> Identity(refs[n])]
            first == [n \in 1..Len(refs) |->
                        CHOOSE i \in 1..Len(input) :
                            /\ ids[i] = out[n]
                            /\ \A j \in 1..(i - 1) : ids[j] # out[n]]
            last == [n \in 1..Len(refs) |->
                       CHOOSE i \in 1..Len(input) :
                           /\ ids[i] = out[n]
                           /\ \A j \in (i + 1)..Len(input) : ids[j] # out[n]]
        IN  /\ \A i \in 1..Len(input) : \E n \in 1..Len(refs) : out[n] = ids[i]
            /\ \A n \in 1..Len(refs) :
                  /\ \E i \in 1..Len(input) : ids[i] = out[n]
                  /\ refs[n] = input[last[n]]
            /\ \A n \in 1..(Len(refs) - 1) : first[n] < first[n + 1]

\* An identity was set again after another identity had been inserted, with
\* a different record, and it is still listed before the other.
C21_Witness ==
    /\ Answered200
    /\ \E n, m \in 1..Len(response.result.references) :
         /\ n < m
         /\ LastAt(response.result.references[n])
              > LastAt(response.result.references[m])
         /\ Enhanced[FirstAt(response.result.references[n])]
              # Enhanced[LastAt(response.result.references[n])]

\* The runner returned from its own branch, after both searches succeeded.
BothSucceeded ==
    /\ tool.pc = "done"
    /\ ~tool.returned.threw
    /\ ~tool.returned.delegated
    /\ {tool.allEvent, tool.exactEvent} \subseteq {"close_ok", "ok"}

\* The records of the substring result whose file:line:text is not in the
\* whole-word result, marked partial.
SubstringOnly ==
    LET rest == SelectSeq(tool.all,
                  LAMBDA m : MatchKey(m) \notin MatchKeys(tool.exact))
    IN  [i \in 1..Len(rest) |-> [rest[i] EXCEPT !.isExactMatch = "false"]]

\* C22: when both searches succeed, the runner returns the whole-word
\* result, marked exact, followed by exactly the records of the substring
\* result whose file:line:text is not in the whole-word result, marked
\* partial; in the ripgrep branch and in the grep branch.
C22_ExactThenSubstringOnly ==
    BothSucceeded =>
        /\ \A i \in 1..Len(tool.exact) : tool.exact[i].isExactMatch = "true"
        /\ tool.returned.value = tool.exact \o SubstringOnly

\* C22 for terms without blanks, and for the grep branch with every term.
C22_WithoutBlankOrGrep ==
    (BothSucceeded /\ (tool.word = Word \/ ~tool.ripgrep)) =>
        /\ \A i \in 1..Len(tool.exact) : tool.exact[i].isExactMatch = "true"
        /\ tool.returned.value = tool.exact \o SubstringOnly

\* C25: every record the runner returns as exact is a record of the
\* substring result it obtained, whatever happened to the two searches.
C25_ExactWithinSubstring ==
    (tool.pc = "done" /\ ~tool.returned.threw /\ ~tool.returned.delegated) =>
        \A i \in 1..Len(tool.returned.value) :
            tool.returned.value[i].isExactMatch = "true" =>
                MatchKey(tool.returned.value[i]) \in MatchKeys(tool.all)

\* No partial record of the list comes before an exact record of it.
ExactFirst(list) ==
    \A i, j \in 1..Len(list) :
        i < j => ~(list[i].isExactMatch = "false" /\ list[j].isExactMatch = "true")

\* C23: in the list each runner returned to the handler, the scanner's
\* included, every exact record comes before every partial record.
C23_ExactBeforePartial ==
    /\ ExactFirst(results.typescript)
    /\ ExactFirst(results.grep)
    /\ ExactFirst(results.node)

\* C23 for the external-tool runner's own two branches: it holds there.
C23_ExternalToolOnly ==
    (tool.pc = "done" /\ ~tool.returned.delegated) => ExactFirst(tool.returned.value)

\* The lists the scanner returned in this request: to the handler, and to
\* the external-tool runner that delegated to it.
ScannerLists == {results.node} \cup (IF delegated THEN {results.grep} ELSE {})

\* C24: in a list the scanner returned, a record is exact exactly when the
\* term stands as a whole word at its column of its line; no partial record
\* has the file, line, column and text of an exact record; and no two
\* records have the same file, line and column.
C24_ScanRecordsDistinct ==
    \A list \in ScannerLists :
        /\ \A i \in 1..Len(list) :
              list[i].isExactMatch = "true"
                <=> ExactAt(Word, content[list[i].line], list[i].column)
        /\ \A i, j \in 1..Len(list) :
              (list[i].isExactMatch = "true" /\ list[j].isExactMatch = "false")
                => <<list[i].file, list[i].line, list[i].column, list[i].text>>
                     # <<list[j].file, list[j].line, list[j].column, list[j].text>>
        /\ \A i, j \in 1..Len(list) :
              i # j => <<list[i].file, list[i].line, list[i].column>>
                         # <<list[j].file, list[j].line, list[j].column>>

\* The scanner returned exact records, at whose columns the second loop
\* matches too, and partial records.
C24_Witness ==
    /\ pc = "done"
    /\ "node" \in { invoked[i] : i \in 1..Len(invoked) }
    /\ \E i, j \in 1..Len(results.node) :
         /\ results.node[i].isExactMatch = "true"
         /\ results.node[j].isExactMatch = "false"

\* C26: a readdir, stat or readFile that fails on one entry below the root
\* does not make the scanner fail: the handler's call of the scanner never
\* throws.
C26_ScannerSurvivesAnEntry == "node" \notin failed

\* C27: the match loops of the scanner end for every term and every file:
\* the scan of the file returns.
C27_ScanReturns == <>(scan.pc = "returned")

\* C27 for the terms that match no empty string: their loops end.
C27_LiteralTermReturns ==
    (scan.word \in {Word, Word2}) ~> (scan.pc = "returned")

\* The sum of the counts of summary.fileTypes.
RECURSIVE SumCounts(_)
SumCounts(fileTypes) ==
    IF fileTypes = <<>> THEN 0
    ELSE Head(fileTypes)[2] + SumCounts(Tail(fileTypes))

\* C28: in a 200 result the groups of groupedByFileType have distinct file
\* types, every record of references has the group of its fileType, each
\* group is the subsequence of references with that fileType (same relative
\* order), summary.fileTypes gives each group's size, and the sizes sum to
\* summary.totalMatches.
C28_GroupsPartitionReferences ==
    Answered200 =>
        LET refs == response.result.references
            groups == response.result.groupedByFileType
            fileTypes == response.result.summary.fileTypes
        IN  /\ \A n, m \in 1..Len(groups) : n # m => groups[n][1] # groups[m][1]
            /\ \A i \in 1..Len(refs) :
                  \E n \in 1..Len(groups) : groups[n][1] = refs[i].fileType
            /\ \A n \in 1..Len(groups) :
                  /\ groups[n][2] # <<>>
                  /\ groups[n][2]
                       = SelectSeq(refs, LAMBDA r : r.fileType = groups[n][1])
            /\ Len(fileTypes) = Len(groups)
            /\ \A n \in 1..Len(groups) :
                  fileTypes[n] = <<groups[n][1], Len(groups[n][2])>>
            /\ SumCounts(fileTypes) = response.result.summary.totalMatches

\* A 200 result with two groups whose records interleave in references.
C28_Witness ==
    /\ Answered200
    /\ Len(response.result.groupedByFileType) >= 2
    /\ \E i, j, k \in 1..Len(response.result.references) :
         /\ i < j /\ j < k
         /\ response.result.references[i].fileType
              = response.result.references[k].fileType
         /\ response.result.references[i].fileType
              # response.result.references[j].fileType

\* C29: enhancing and deduplicating the references of a 200 result again,
\* with the same root directory, gives the same records in the same order
\* and the same summary.
C29_ReconciliationIdempotent ==
    Answered200 =>
        LET again == SearchResult(response.result.references, JoinPath(Root))
        IN  /\ again.references = response.result.references
            /\ again.summary = response.result.summary

\* A 200 result of several records from which the deduplication had removed
\* a record.
C29_Witness ==
    /\ Answered200
    /\ Len(response.result.references) >= 2
    /\ Len(Concatenation) > Len(response.result.references)

\* (relativePath, line, column) of a record of KeyRecords.
KeyTuple(ref) == <<ref.relativePath, ref.line, ref.column>>

\* C30: two records whose (relativePath, line, column) differ have different
\* map keys and are both kept by the deduplication, also when the relative
\* paths hold colons and digits.
C30_KeyInjective ==
    (keys # KeysIdle /\ keys.pc = "done") =>
        LET a == keys.enhancedReferences[1]
            b == keys.enhancedReferences[2]
        IN  KeyTuple(a) # KeyTuple(b) =>
                /\ RefKey(a) # RefKey(b)
                /\ keys.uniqueRefs = <<a, b>>

\* Two different records were deduplicated, the path of the first holds
\* ":1", and the key of the second is a proper prefix of the key of the
\* first ("a:1:1" of "a:1:1:1").
C30_Witness ==
    /\ keys # KeysIdle
    /\ keys.pc = "done"
    /\ LET a == keys.enhancedReferences[1]
           b == keys.enhancedReferences[2]
       IN  /\ KeyTuple(a) # KeyTuple(b)
           /\ \E i \in 1..(Len(a.relativePath) - 1) :
                 a.relativePath[i] = ":" /\ a.relativePath[i + 1] = "1"
           /\ Len(RefKey(b)) < Len(RefKey(a))
           /\ SubSeq(RefKey(a), 1, Len(RefKey(b))) = RefKey(b)
           /\ Len(keys.uniqueRefs) = 2

\* C31: a search that settles, with matches or with an error, is followed
\* by a new prompt, the error being printed; and the loop is left only from
\* the prompt, by a line that is 'exit' in lower case, with process.exit(0).
C31_RepromptsUntilExit ==
    [][/\ terminal.pc = "searching" =>
             /\ terminal'.pc = "prompt"
             /\ terminal'.printed \in {"results", "error"}
       /\ terminal'.pc \notin {"prompt", "searching"} =>
             /\ terminal.pc = "prompt"
             /\ terminal'.pc = "exited"
             /\ LowerSeq(terminal'.word) = <<"e", "x", "i", "t">>
             /\ exit' = "terminal"
             /\ ExitCode(exit') = 0]_vars

\* After a search that failed the error was printed and the prompt is asked
\* again.
C31_Witness ==
    /\ terminal.pc = "prompt"
    /\ terminal.printed = "error"
    /\ terminal.prompts >= 2

\* C32: whatever address-in-use failures came before, the listening
\* callback runs once when the server listens, so startTerminalInterface is
\* called at most once, and exactly once on a listening server.
C32_OneTerminalInterface ==
    /\ terminals <= 1
    /\ server.handle # {} => terminals = 1

\* C33: when checkSearchTools reports ripgrep, the two invocations of the
\* query start the tool: neither ends with the 'error' event of a binary
\* that is not there, and a query whose substring search has lines to print
\* does not return an empty list with both invocations ended that way.
C33_FoundRipgrepStarts ==
    (tool.pc = "done" /\ tool.ripgrep) =>
        /\ "error" \notin {tool.allEvent, tool.exactEvent}
        /\ (/\ ~tool.returned.threw
            /\ ~tool.returned.delegated
            /\ RipgrepStdout(tool.word, tree, content, FALSE) # <<>>
            /\ {tool.allEvent, tool.exactEvent} \subseteq {"error", "close_ok"})
              => tool.returned.value # <<>>

\* C34: a record that findReferencesWithGrep returns as partial lies on a
\* line that the whole-word search does not select, whatever happened to
\* the two invocations.
C34_PartialLinesHaveNoWholeWord ==
    (tool.pc = "done" /\ ~tool.returned.threw /\ ~tool.returned.delegated) =>
        \A i \in 1..Len(tool.returned.value) :
            tool.returned.value[i].isExactMatch = "false" =>
                ~LineSelected(tool.word, content[tool.returned.value[i].line], TRUE)

\* The request has a word and an existing directory.
ValidRequest ==
    /\ request.body = "json"
    /\ ~Missing(request.word)
    /\ ~Missing(request.directory)
    /\ ExistsSync(request.directory)

\* The handler called no runner and answered 200 with an empty result.
EmptyOk ==
    /\ invoked = <<>>
    /\ response.status = 200
    /\ response.result.references = <<>>
    /\ response.result.summary.totalMatches = 0

C36_RecordsCarryPrintedFields ==
    (tool.pc = "done" /\ tool.allEvent \in {"ok", "close_ok"}) =>
        LET out == ToolStdout(tool.word, tree, content, FALSE, 1)
        IN  /\ Len(tool.all) = Len(out)
            /\ \A i \in 1..Len(out) :
                  \E path \in tree, n \in 1..Len(content) :
                      /\ out[i] = OutputLine(path, n, content[n])
                      /\ tool.all[i].file = AbsPath(path)
                      /\ tool.all[i].line = n
                      /\ tool.all[i].text = Trim(content[n])

=============================================================================
